---- MODULE Spec2Model ----
(***************************************************************************)
(* A model of the grafbase sql-ast renderer: the AST (src/src/ast), the    *)
(* generic tree walk (src/src/renderer.rs) and the PostgreSQL dialect      *)
(* (src/src/renderer/postgres.rs).                                         *)
(*                                                                         *)
(* The SQL text is a sequence of tokens, one token per call of `write`.    *)
(* The recursive descent is a stack of pending calls: visiting a node      *)
(* replaces the call by the body of the visit function, i.e. by the        *)
(* writes and the nested visits it makes, in program order.                *)
(***************************************************************************)
EXTENDS Integers, Sequences, FiniteSets, TLC

VARIABLES pc, subject, log, stack, query, parameters, current, done

vars == <<pc, subject, log, stack, query, parameters, current, done>>

(***************************************************************************)
(* Bounds of the input universe.                                           *)
(***************************************************************************)
MaxChain == 3
MaxBuilds == 3
MaxRow == 2
MaxRows == 2

(***************************************************************************)
(* Option<T>: None is the empty tuple, Some(x) a one-element tuple.        *)
(***************************************************************************)
None == <<>>
Some(x) == <<x>>

(***************************************************************************)
(* serde_json::Value, kept as its type and its printed form.               *)
(***************************************************************************)
NumberValue(n) == [type |-> "Number", repr |-> ToString(n)]
StringValue(s) == [type |-> "String", repr |-> s]
BoolValue(b) == [type |-> "Bool", repr |-> IF b THEN "true" ELSE "false"]

(***************************************************************************)
(* AST constructors.                                                       *)
(***************************************************************************)
Expression(kind, val) == [kind |-> kind, val |-> val, alias |-> None]
Parameterized(v) == Expression("Parameterized", v)
raw(s) == Expression("Raw", s)
asterisk == Expression("Asterisk", None)
default_value == Expression("Default", None)
RowExpr(values) == Expression("Row", values)
ValuesExpr(rows) == Expression("Values", rows)
ValueExpr(e) == Expression("Value", e)
Aliased(x, a) == [x EXCEPT !.alias = Some(a)]

Table(name) == [typ |-> "Table", source |-> name, alias |-> None, database |-> None]
TableFromSelect(select) == [typ |-> "Query", source |-> select, alias |-> None, database |-> None]
TableFromValues(rows) == [typ |-> "Values", source |-> rows, alias |-> None, database |-> None]
TableExpr(t) == Expression("Table", t)

Column(name) == [name |-> name, table |-> None, alias |-> None]
ColumnOf(t, name) == [name |-> name, table |-> Some(Table(t)), alias |-> None]
ColumnExpr(c) == Expression("Column", c)

Compare(cmp, args) == [cmp |-> cmp, args |-> args, extra |-> None]
CompareExpr(c) == Expression("Compare", c)
compare_raw(left, comparator, right) == [cmp |-> "Raw", args |-> <<left, right>>, extra |-> comparator]

ConditionTree(ct, cond) == [ct |-> ct, cond |-> cond]
NoCondition == ConditionTree("NoCondition", None)
NegativeCondition == ConditionTree("NegativeCondition", None)
ConditionTree_single(e) == ConditionTree("Single", e)
ConditionTree_not(e) == ConditionTree("Not", e)
ConditionTree_exists(t) == ConditionTree("Exists", t)
ConditionTreeExpr(t) == Expression("ConditionTree", t)

SelectDefault ==
  [ctes |-> <<>>, distinct |-> FALSE, tables |-> <<>>, columns |-> <<>>,
   conditions |-> None, ordering |-> <<>>, grouping |-> <<>>, having |-> None,
   limit |-> None, offset |-> None, joins |-> <<>>]
Select_from_table(t) == [SelectDefault EXCEPT !.tables = <<t>>]
Select_so_that(s, c) == [s EXCEPT !.conditions = Some(c)]
\* a value that is not added to the columns
Select_value_dropping(s, e) == s
Select_value(s, e) == [s EXCEPT !.columns = Append(@, e)]
SelectionExpr(s) == Expression("Selection", s)

QuerySelect(s) == [q |-> "Select", stmt |-> s]
QueryInsert(i) == [q |-> "Insert", stmt |-> i]
QueryUpdate(u) == [q |-> "Update", stmt |-> u]
QueryDelete(d) == [q |-> "Delete", stmt |-> d]

(***************************************************************************)
(* ConditionTree::and / ConditionTree::or (ast/conditions.rs) and the      *)
(* blanket Conjunctive implementation (ast/conjunctive.rs).                *)
(***************************************************************************)
\* an `and` that always nests the tree it is called on
ConditionTree_and_nesting(self, other) ==
  ConditionTree("And", <<ConditionTreeExpr(self), other>>)

ConditionTree_and(self, other) ==
  CASE self.ct = "And" -> ConditionTree("And", Append(self.cond, other))
    [] self.ct = "Single" -> ConditionTree("And", <<self.cond, other>>)
    [] OTHER -> ConditionTree("And", <<ConditionTreeExpr(self), other>>)

\* an `or` that splices the elements of an operand that is itself an Or
ConditionTree_or_splicing(self, other) ==
  LET first == IF self.ct = "Single" THEN self.cond ELSE ConditionTreeExpr(self)
      rest == IF other.kind = "ConditionTree" /\ other.val.ct = "Or"
                THEN other.val.cond ELSE <<other>>
  IN IF self.ct = "Or" THEN ConditionTree("Or", Append(self.cond, other))
                       ELSE ConditionTree("Or", <<first>> \o rest)

ConditionTree_or(self, other) ==
  CASE self.ct = "Or" -> ConditionTree("Or", Append(self.cond, other))
    [] self.ct = "Single" -> ConditionTree("Or", <<self.cond, other>>)
    [] OTHER -> ConditionTree("Or", <<ConditionTreeExpr(self), other>>)

\* Select::and_where, Select::or_where (ast/select.rs)
\* an and_where that puts the new condition first
Select_and_where_in_front(s, c) ==
  IF s.conditions = None THEN Select_so_that(s, c)
  ELSE [s EXCEPT !.conditions =
          Some(ConditionTree_and(c, ConditionTreeExpr(s.conditions[1])))]
Select_and_where(s, c) ==
  IF s.conditions = None THEN Select_so_that(s, c)
  ELSE [s EXCEPT !.conditions =
          Some(ConditionTree_and(s.conditions[1], ConditionTreeExpr(c)))]
Select_or_where(s, c) ==
  IF s.conditions = None THEN Select_so_that(s, c)
  ELSE [s EXCEPT !.conditions =
          Some(ConditionTree_or(s.conditions[1], ConditionTreeExpr(c)))]

Conjunctive_and(self, other) == ConditionTree("And", <<self, other>>)
Conjunctive_or(self, other) == ConditionTree("Or", <<self, other>>)

(***************************************************************************)
(* Row and Values (ast/row.rs, ast/values.rs).                             *)
(***************************************************************************)
Row_is_empty(row) == Len(row) = 0
Row_pop(row) == row[Len(row)]
Values_len(values) == Len(values)
Values_row_len(values) == Len(values)
Values_flatten_row(values) == values[1]

(***************************************************************************)
(* Pending work of the walk: a write of one token, or a call of a visit    *)
(* function with its argument.                                             *)
(***************************************************************************)
W(s) == [call |-> "write", arg |-> s]
Call(f, arg) == [call |-> f, arg |-> arg]

RECURSIVE Concat(_)
Concat(ss) == IF Len(ss) = 0 THEN <<>> ELSE Head(ss) \o Concat(Tail(ss))

\* for (i, x) in xs.enumerate() { body(x); if i < len - 1 { write(sep) } }
Separated(bodies, sep) ==
  Concat([i \in 1..Len(bodies) |->
            bodies[i] \o (IF i < Len(bodies) THEN <<W(sep)>> ELSE <<>>)])

Each(bodies) == Concat(bodies)

(***************************************************************************)
(* Dialect constants (renderer/postgres.rs).                               *)
(***************************************************************************)
C_BACKTICK_OPEN == "\""
C_BACKTICK_CLOSE == "\""
C_WILDCARD == "%"

(***************************************************************************)
(* The accumulators of Postgres (renderer/postgres.rs).                    *)
(***************************************************************************)
\* appending the empty string leaves the text as it is
\* a write that replaces the buffer instead of extending it
write_replacing(text, s) == IF s = "" THEN text ELSE <<s>>
write(text, s) == IF s = "" THEN text ELSE Append(text, s)

\* an add_parameter that loses the value
add_parameter_losing(params, value) == params
add_parameter(params, value) == Append(params, value)

\* a substitution that numbers the placeholders from zero
parameter_substitution_from_zero(text, params) ==
  write(write(text, "$"), ToString(Len(params) - 1))
parameter_substitution(text, params) == write(write(text, "$"), ToString(Len(params)))

(***************************************************************************)
(* The generic walk (renderer.rs).  Every operator gives the body of the   *)
(* visit function of the same name.                                        *)
(***************************************************************************)
\* a surround_with that writes neither the opening nor the closing text
surround_with_nothing(begin, end, f) == f

surround_with(begin, end, f) == <<W(begin)>> \o f \o <<W(end)>>

surround_with_backticks(part) ==
  surround_with(C_BACKTICK_OPEN, C_BACKTICK_CLOSE, <<W(part)>>)

delimited_identifiers(parts) ==
  Separated([i \in 1..Len(parts) |-> surround_with_backticks(parts[i])], ".")

visit_parameterized(value) == <<Call("visit_parameterized", value)>>

visit_join_data(data) ==
  (IF data.lateral THEN <<W(" LATERAL ")>> ELSE <<>>)
  \o <<Call("visit_table", [table |-> data.table, include_alias |-> TRUE]),
       W(" ON "),
       Call("visit_conditions", data.conditions)>>

\* a visit_joins that walks the joins from the last one to the first
visit_joins_backwards(joins) ==
  Each([i \in 1..Len(joins) |->
    LET j == joins[Len(joins) + 1 - i] IN
    CASE j.join = "Inner" -> <<W(" INNER JOIN "), Call("visit_join_data", j.data)>>
      [] j.join = "Left" -> <<W(" LEFT JOIN "), Call("visit_join_data", j.data)>>
      [] j.join = "Right" -> <<W(" RIGHT JOIN "), Call("visit_join_data", j.data)>>
      [] j.join = "Full" -> <<W(" FULL JOIN "), Call("visit_join_data", j.data)>>])

visit_joins(joins) ==
  Each([i \in 1..Len(joins) |->
    CASE joins[i].join = "Inner" -> <<W(" INNER JOIN "), Call("visit_join_data", joins[i].data)>>
      [] joins[i].join = "Left" -> <<W(" LEFT JOIN "), Call("visit_join_data", joins[i].data)>>
      [] joins[i].join = "Right" -> <<W(" RIGHT JOIN "), Call("visit_join_data", joins[i].data)>>
      [] joins[i].join = "Full" -> <<W(" FULL JOIN "), Call("visit_join_data", joins[i].data)>>])

visit_common_table_expression(cte) ==
  <<Call("visit_table", [table |-> Table(cte.name), include_alias |-> FALSE]),
    W(" AS ")>>
  \o surround_with("(", ")", <<Call("visit_query", cte.query)>>)

visit_columns(columns) ==
  Separated([i \in 1..Len(columns) |-> <<Call("visit_expression", columns[i])>>], ", ")

visit_grouping(grouping) ==
  Separated([i \in 1..Len(grouping) |-> <<Call("visit_expression", grouping[i])>>], ", ")

\* the projection of a Select without explicit columns, one source table
\* a projection that visits the table as it is, joins included
select_default_projection_joined(table) ==
  <<Call("visit_table", [table |-> table, include_alias |-> FALSE]), W(".*")>>

select_default_projection(table) ==
  CASE table.typ \in {"Query", "Values"} ->
         IF table.alias # None
           THEN surround_with(C_BACKTICK_OPEN, C_BACKTICK_CLOSE, <<W(table.alias[1])>>)
                \o <<W(".*")>>
           ELSE <<W("*")>>
    [] table.typ = "Table" ->
         IF table.alias # None
           THEN surround_with(C_BACKTICK_OPEN, C_BACKTICK_CLOSE, <<W(table.alias[1])>>)
                \o <<W(".*")>>
           ELSE <<Call("visit_table", [table |-> table, include_alias |-> FALSE]), W(".*")>>
    [] table.typ = "JoinedTable" ->
         IF table.alias # None
           THEN surround_with(C_BACKTICK_OPEN, C_BACKTICK_CLOSE, <<W(table.alias[1])>>)
                \o <<W(".*")>>
           ELSE <<Call("visit_table",
                       [table |-> [table EXCEPT !.typ = "Table", !.source = table.source.name],
                        include_alias |-> FALSE]),
                  W(".*")>>

visit_select(select) ==
  (IF Len(select.ctes) > 0
     THEN <<W("WITH ")>>
          \o Separated([i \in 1..Len(select.ctes) |->
                          <<Call("visit_common_table_expression", select.ctes[i])>>], ", ")
          \o <<W(" ")>>
     ELSE <<>>)
  \o <<W("SELECT ")>>
  \o (IF select.distinct THEN <<W("DISTINCT ")>> ELSE <<>>)
  \o (IF Len(select.tables) # 0
        THEN (IF Len(select.columns) = 0
                THEN Separated([i \in 1..Len(select.tables) |->
                                  select_default_projection(select.tables[i])], ", ")
                     \* the separator is written before every table but the first
                ELSE <<Call("visit_columns", select.columns)>>)
             \o <<W(" FROM ")>>
             \o Separated([i \in 1..Len(select.tables) |->
                             <<Call("visit_table", [table |-> select.tables[i],
                                                   include_alias |-> TRUE])>>], ", ")
             \o (IF Len(select.joins) # 0 THEN <<Call("visit_joins", select.joins)>> ELSE <<>>)
             \o (IF select.conditions # None
                   THEN <<W(" WHERE "), Call("visit_conditions", select.conditions[1])>>
                   ELSE <<>>)
             \o (IF Len(select.grouping) # 0
                   THEN <<W(" GROUP BY "), Call("visit_grouping", select.grouping)>>
                   ELSE <<>>)
             \o (IF select.having # None
                   THEN <<W(" HAVING "), Call("visit_conditions", select.having[1])>>
                   ELSE <<>>)
             \o (IF Len(select.ordering) # 0
                   THEN <<W(" ORDER BY "), Call("visit_ordering", select.ordering)>>
                   ELSE <<>>)
             \o <<Call("visit_limit_and_offset",
                       [limit |-> select.limit, offset |-> select.offset])>>
        ELSE IF Len(select.columns) = 0
          THEN <<W(" *")>>
          ELSE <<Call("visit_columns", select.columns)>>)

update_pairs(update) ==
  LET len == IF Len(update.columns) < Len(update.values)
               THEN Len(update.columns) ELSE Len(update.values)
  IN Separated([i \in 1..len |->
                  <<Call("visit_column", update.columns[i]),
                    W(" = "),
                    Call("visit_expression", update.values[i])>>], ", ")

returning_columns(returning) ==
  IF returning # None /\ Len(returning[1]) # 0
    THEN <<W(" RETURNING "),
           Call("visit_columns",
                [i \in 1..Len(returning[1]) |-> ColumnExpr(returning[1][i])])>>
    ELSE <<>>

visit_update(update) ==
  <<W("UPDATE "),
    Call("visit_table", [table |-> update.table, include_alias |-> TRUE]),
    W(" SET ")>>
  \o update_pairs(update)
  \o (IF update.conditions # None
        THEN <<W(" WHERE "), Call("visit_conditions", update.conditions[1])>>
        ELSE <<>>)
  \o returning_columns(update.returning)

visit_update_set(update) == update_pairs(update)

\* an upsert written as a whole UPDATE statement
visit_upsert_as_update(update) == <<Call("visit_update", update)>>
visit_upsert(update) ==
  <<W("UPDATE "), W("SET "), Call("visit_update_set", update)>>
  \o (IF update.conditions # None
        THEN <<W(" WHERE "), Call("visit_conditions", update.conditions[1])>>
        ELSE <<>>)

\* a bracket list that is never closed
columns_to_bracket_list_unclosed(columns) ==
  <<W(" (")>>
  \o Separated([i \in 1..Len(columns) |->
                  <<Call("visit_column", Column(columns[i].name))>>], ",")
columns_to_bracket_list(columns) ==
  <<W(" (")>>
  \o Separated([i \in 1..Len(columns) |->
                  <<Call("visit_column", Column(columns[i].name))>>], ",")
  \o <<W(")")>>

visit_query(q) ==
  CASE q.q = "Select" -> <<Call("visit_select", q.stmt)>>
    [] q.q = "Insert" -> <<Call("visit_insert", q.stmt)>>
    [] q.q = "Update" -> <<Call("visit_update", q.stmt)>>
    [] q.q = "Delete" -> <<Call("visit_delete", q.stmt)>>

SqlOpToken(op) ==
  CASE op = "Add" -> " + "
    [] op = "Sub" -> " - "
    [] op = "Mul" -> " * "
    [] op = "Div" -> " / "
    [] op = "Rem" -> " % "
    [] op = "Append" -> " || "
    [] op = "JsonDeleteAtPath" -> " #- "

visit_operation(op) ==
  surround_with("(", ")",
    <<Call("visit_expression", op.left),
      W(SqlOpToken(op.op)),
      Call("visit_expression", op.right)>>)

visit_expression(value) ==
  (CASE value.kind = "Value" -> <<Call("visit_expression", value.val)>>
     [] value.kind = "Raw" -> <<W(value.val)>>
     [] value.kind = "ConditionTree" -> <<Call("visit_conditions", value.val)>>
     [] value.kind = "Compare" -> <<Call("visit_compare", value.val)>>
     [] value.kind = "Parameterized" -> visit_parameterized(value.val)
     [] value.kind = "Column" -> <<Call("visit_column", value.val)>>
     [] value.kind = "Row" -> <<Call("visit_row", value.val)>>
     [] value.kind = "Selection" ->
          surround_with("(", ")", <<Call("visit_select", value.val)>>)
     [] value.kind = "Function" -> <<Call("visit_function", value.val)>>
     [] value.kind = "Op" -> <<Call("visit_operation", value.val)>>
     [] value.kind = "Values" -> <<Call("visit_values", value.val)>>
     [] value.kind = "Asterisk" ->
          IF value.val # None
            THEN <<Call("visit_table", [table |-> value.val[1], include_alias |-> FALSE]),
                   W(".*")>>
            ELSE <<W("*")>>
     [] value.kind = "Default" -> <<W("DEFAULT")>>
     [] value.kind = "Table" ->
          <<Call("visit_table", [table |-> value.val, include_alias |-> FALSE])>>)
  \o (IF value.alias # None
        THEN <<W(" AS ")>> \o delimited_identifiers(<<value.alias[1]>>)
        ELSE <<>>)

\* a tuple comparison that ignores negate
visit_multiple_tuple_comparison_unnegated(left, right, negate) ==
  <<Call("visit_row", left), W(" IN "), Call("visit_values", right)>>
visit_multiple_tuple_comparison(left, right, negate) ==
  <<Call("visit_row", left),
    W(IF negate THEN " NOT IN " ELSE " IN "),
    Call("visit_values", right)>>

visit_values(values) ==
  surround_with("(", ")",
    Separated([i \in 1..Values_len(values) |-> <<Call("visit_row", values[i])>>], ","))

visit_table(table, include_alias) ==
  (CASE table.typ = "Table" ->
          IF table.database # None
            THEN delimited_identifiers(<<table.database[1], table.source>>)
            ELSE delimited_identifiers(<<table.source>>)
     [] table.typ = "Values" -> <<Call("visit_values", table.source)>>
     [] table.typ = "Query" ->
          surround_with("(", ")", <<Call("visit_select", table.source)>>)
     [] table.typ = "JoinedTable" ->
          (IF table.database # None
             THEN delimited_identifiers(<<table.database[1], table.source.name>>)
             ELSE delimited_identifiers(<<table.source.name>>))
          \o <<Call("visit_joins", table.source.joins)>>)
  \o (IF include_alias /\ table.alias # None
        THEN <<W(" AS ")>> \o delimited_identifiers(<<table.alias[1]>>)
        ELSE <<>>)

\* a visit_column that never writes the alias
visit_column_unaliased(column) ==
  IF column.table # None
    THEN <<Call("visit_table", [table |-> column.table[1], include_alias |-> FALSE]),
           W(".")>>
         \o delimited_identifiers(<<column.name>>)
    ELSE delimited_identifiers(<<column.name>>)

visit_column(column) ==
  (IF column.table # None
     THEN <<Call("visit_table", [table |-> column.table[1], include_alias |-> FALSE]),
            W(".")>>
          \o delimited_identifiers(<<column.name>>)
     ELSE delimited_identifiers(<<column.name>>))
  \o (IF column.alias # None
        THEN <<W(" AS ")>> \o delimited_identifiers(<<column.alias[1]>>)
        ELSE <<>>)

visit_row(row) ==
  surround_with("(", ")",
    Separated([i \in 1..Len(row) |-> <<Call("visit_expression", row[i])>>], ","))

visit_conditions(tree) ==
  CASE tree.ct = "And" ->
         surround_with("(", ")",
           Separated([i \in 1..Len(tree.cond) |-> <<Call("visit_expression", tree.cond[i])>>],
                     " AND "))
    [] tree.ct = "Or" ->
         surround_with("(", ")",
           Separated([i \in 1..Len(tree.cond) |-> <<Call("visit_expression", tree.cond[i])>>],
                     " OR "))
    [] tree.ct = "Not" ->
         surround_with("(", ")", <<W("NOT "), Call("visit_expression", tree.cond)>>)
    [] tree.ct = "Single" -> <<Call("visit_expression", tree.cond)>>
    [] tree.ct = "NoCondition" -> <<W("1=1")>>
    [] tree.ct = "NegativeCondition" -> <<W("1=0")>>
    [] tree.ct = "Exists" ->
         surround_with("(", ")",
           <<W("EXISTS ")>>
           \o surround_with("(", ")",
                <<Call("visit_table", [table |-> tree.cond, include_alias |-> FALSE])>>))

Infix(left, token, right) ==
  <<Call("visit_expression", left), W(token), Call("visit_expression", right)>>

visit_greater_than(left, right) == Infix(left, " > ", right)
visit_greater_than_or_equals(left, right) == Infix(left, " >= ", right)
visit_less_than(left, right) == Infix(left, " < ", right)
visit_less_than_or_equals(left, right) == Infix(left, " <= ", right)
visit_equals(left, right) == Infix(left, " = ", right)
visit_not_equals(left, right) == Infix(left, " <> ", right)

\* Postgres overrides visit_like / visit_not_like (renderer/postgres.rs)
\* a visit_like that casts every left operand
visit_like_casting_all(left, right) ==
  <<Call("visit_expression", left), W("::text"), W(" LIKE "),
    Call("visit_expression", right)>>
visit_like(left, right) ==
  LET need_cast == left.kind = "Column"
  IN <<Call("visit_expression", left)>>
     \o (IF need_cast THEN <<W("::text")>> ELSE <<>>)
     \o <<W(" LIKE "), Call("visit_expression", right)>>

visit_not_like(left, right) ==
  LET need_cast == left.kind = "Column"
  IN <<Call("visit_expression", left)>>
     \o (IF need_cast THEN <<W("::text")>> ELSE <<>>)
     \o <<W(" NOT LIKE "), Call("visit_expression", right)>>

\* a Compare::In arm without its special cases: always `left IN right`
visit_compare_In_plain(left, right) ==
  <<Call("visit_expression", left), W(" IN "), Call("visit_expression", right)>>

\* a Compare::In arm that never flattens a one-column row
visit_compare_In_unflattened(left, right) ==
  IF right.kind = "Row" /\ Row_is_empty(right.val)
    THEN <<W("1=0")>>
  ELSE IF left.kind = "Row" /\ right.kind = "Values" /\ Values_row_len(right.val) = 0
    THEN <<W("1=0")>>
  ELSE IF right.kind = "Parameterized"
    THEN <<Call("visit_expression", left), W(" = ")>> \o visit_parameterized(right.val)
  ELSE IF left.kind = "Row" /\ right.kind = "Values"
    THEN visit_multiple_tuple_comparison(left.val, right.val, FALSE)
  ELSE <<Call("visit_expression", left), W(" IN "), Call("visit_expression", right)>>

\* Compare::In arm of visit_compare
visit_compare_In(left, right) ==
  IF right.kind = "Row" /\ Row_is_empty(right.val)
    THEN <<W("1=0")>>
  ELSE IF left.kind = "Row" /\ right.kind = "Values" /\ Values_row_len(right.val) = 0
    THEN <<W("1=0")>>
  ELSE IF left.kind = "Row" /\ right.kind = "Values"
          /\ Len(left.val) = 1 /\ Values_row_len(right.val) = 1
    THEN <<Call("visit_expression", Row_pop(left.val)),
           W(" IN "),
           Call("visit_row", Values_flatten_row(right.val))>>
  ELSE IF right.kind = "Parameterized"
    THEN <<Call("visit_expression", left), W(" = ")>> \o visit_parameterized(right.val)
  ELSE IF left.kind = "Row" /\ right.kind = "Values"
    THEN visit_multiple_tuple_comparison(left.val, right.val, FALSE)
  ELSE <<Call("visit_expression", left), W(" IN "), Call("visit_expression", right)>>

\* a Compare::NotIn arm without its special cases: always `left NOT IN right`
visit_compare_NotIn_plain(left, right) ==
  <<Call("visit_expression", left), W(" NOT IN "), Call("visit_expression", right)>>

\* Compare::NotIn arm of visit_compare
visit_compare_NotIn(left, right) ==
  IF right.kind = "Row" /\ Row_is_empty(right.val)
    THEN <<W("1=1")>>
  ELSE IF left.kind = "Row" /\ right.kind = "Values" /\ Values_row_len(right.val) = 0
    THEN <<W("1=1")>>
  ELSE IF left.kind = "Row" /\ right.kind = "Values"
          /\ Len(left.val) = 1 /\ Values_row_len(right.val) = 1
    THEN <<Call("visit_expression", Row_pop(left.val)),
           W(" NOT IN "),
           Call("visit_row", Values_flatten_row(right.val))>>
  ELSE IF right.kind = "Parameterized"
    THEN <<Call("visit_expression", left), W(" <> ")>> \o visit_parameterized(right.val)
  ELSE IF left.kind = "Row" /\ right.kind = "Values"
    THEN visit_multiple_tuple_comparison(left.val, right.val, TRUE)
  ELSE <<Call("visit_expression", left), W(" NOT IN "), Call("visit_expression", right)>>

(***************************************************************************)
(* The PostgreSQL hooks (renderer/postgres.rs).                            *)
(***************************************************************************)
\* a hook that writes the LIMIT number into the text itself
visit_limit_and_offset_inline(limit, offset) ==
  (IF limit # None THEN <<W(" LIMIT "), W(ToString(limit[1]))>> ELSE <<>>)
  \o (IF offset # None
        THEN <<W(" OFFSET ")>> \o visit_parameterized(NumberValue(offset[1]))
        ELSE <<>>)

visit_limit_and_offset(limit, offset) ==
  CASE limit # None /\ offset # None ->
         <<W(" LIMIT ")>> \o visit_parameterized(NumberValue(limit[1]))
         \o <<W(" OFFSET ")>> \o visit_parameterized(NumberValue(offset[1]))
    [] limit = None /\ offset # None ->
         <<W(" OFFSET ")>> \o visit_parameterized(NumberValue(offset[1]))
    [] limit # None /\ offset = None ->
         <<W(" LIMIT ")>> \o visit_parameterized(NumberValue(limit[1]))
    [] limit = None /\ offset = None -> <<>>

insert_columns(columns) ==
  <<W(" (")>>
  \o Separated([i \in 1..Len(columns) |->
                  <<Call("visit_column", Column(columns[i].name))>>], ",")
  \o <<W(")")>>

visit_insert(insert) ==
  <<W("INSERT ")>>
  \o (IF insert.table # None
        THEN <<W("INTO "),
               Call("visit_table", [table |-> insert.table[1], include_alias |-> TRUE])>>
        ELSE <<>>)
  \o (CASE insert.values.kind = "Row" ->
             IF Len(insert.values.val) = 0
               THEN <<W(" DEFAULT VALUES")>>
               ELSE insert_columns(insert.columns)
                    \o <<W(" VALUES "), Call("visit_row", insert.values.val)>>
        [] insert.values.kind = "Values" ->
             insert_columns(insert.columns)
             \o <<W(" VALUES ")>>
             \o Separated([i \in 1..Values_len(insert.values.val) |->
                             <<Call("visit_row", insert.values.val[i])>>], ", ")
        [] OTHER ->
             surround_with("(", ")", <<Call("visit_expression", insert.values)>>))
  \o (IF insert.on_conflict = None THEN <<>>
      ELSE IF insert.on_conflict[1].oc = "DoNothing"
        THEN <<W(" ON CONFLICT DO NOTHING")>>
        ELSE <<W(" ON CONFLICT")>>
             \o columns_to_bracket_list(insert.on_conflict[1].constraints)
             \o <<W(" DO "), Call("visit_upsert", insert.on_conflict[1].update)>>)
  \o returning_columns(insert.returning)

\* DELETE FROM <table> [WHERE <conditions>]
visit_delete(delete) ==
  <<W("DELETE FROM "),
    Call("visit_table", [table |-> delete.table, include_alias |-> TRUE])>>
  \o (IF delete.conditions # None
        THEN <<W(" WHERE "), Call("visit_conditions", delete.conditions[1])>>
        ELSE <<>>)

visit_aggregate_to_string(value) ==
  <<W("ARRAY_TO_STRING"), W("("), W("ARRAY_AGG"), W("("),
    Call("visit_expression", value),
    W(")"), W("','"), W(")")>>

\* JsonPath::array, JsonPath::string (ast/function/json_extract.rs)
JsonPath_array(array) == [notation |-> "Array", path |-> array]
JsonPath_string(string) == [notation |-> "String", path |-> string]

\* panic!(message): the walk is abandoned
Panic(message) == Call("panic", message)
Panics(body) == Len(body) > 0 /\ body[1].call = "panic"

\* a visit_json_extract that writes a path in string notation as one key
visit_json_extract_of_any(json_extract) ==
  LET keys == IF json_extract.path.notation = "String"
                THEN <<json_extract.path.path>> ELSE json_extract.path.path
  IN <<W("("),
       Call("visit_expression", json_extract.column),
       W(IF json_extract.extract_as_string THEN "#>>" ELSE "#>")>>
     \o surround_with("ARRAY[", "]::text[]",
          Separated([i \in 1..Len(keys) |->
                       visit_parameterized(StringValue(keys[i]))], ", "))
     \o <<W(")")>>
     \o (IF ~json_extract.extract_as_string THEN <<W("::jsonb")>> ELSE <<>>)
visit_json_extract(json_extract) ==
  IF json_extract.path.notation = "String"
    THEN <<Panic("JSON path string notation is not supported for Postgres")>>
    ELSE <<W("("),
           Call("visit_expression", json_extract.column),
           W(IF json_extract.extract_as_string THEN "#>>" ELSE "#>")>>
         \o surround_with("ARRAY[", "]::text[]",
              Separated([i \in 1..Len(json_extract.path.path) |->
                           visit_parameterized(StringValue(json_extract.path.path[i]))], ", "))
         \o <<W(")")>>
         \o (IF ~json_extract.extract_as_string THEN <<W("::jsonb")>> ELSE <<>>)

visit_json_unquote(json_unquote) ==
  <<W("("), Call("visit_expression", json_unquote.expr), W("#>>ARRAY[]::text[]"), W(")")>>

visit_array_contains(left, right, not) ==
  (IF not THEN <<W("( NOT ")>> ELSE <<>>)
  \o Infix(left, " @> ", right)
  \o (IF not THEN <<W(" )")>> ELSE <<>>)

visit_array_contained(left, right, not) ==
  (IF not THEN <<W("( NOT ")>> ELSE <<>>)
  \o Infix(left, " <@ ", right)
  \o (IF not THEN <<W(" )")>> ELSE <<>>)

visit_array_overlaps(left, right) == Infix(left, " && ", right)

visit_json_extract_last_array_item(extract) ==
  <<W("("), Call("visit_expression", extract.expr), W("->-1"), W(")")>>

visit_json_extract_first_array_item(extract) ==
  <<W("("), Call("visit_expression", extract.expr), W("->0"), W(")")>>

JsonTypeName(json_type) ==
  CASE json_type.jt = "Array" -> "array"
    [] json_type.jt = "Boolean" -> "boolean"
    [] json_type.jt = "Number" -> "number"
    [] json_type.jt = "Object" -> "object"
    [] json_type.jt = "String" -> "string"
    [] json_type.jt = "Null" -> "null"

visit_json_type_equals(left, json_type, not) ==
  <<W("JSONB_TYPEOF"), W("("), Call("visit_expression", left), W(")"),
    W(IF not THEN " != " ELSE " = ")>>
  \o (IF json_type.jt = "ColumnRef"
        THEN <<W("JSONB_TYPEOF"), W("("), Call("visit_column", json_type.column),
               W("::jsonb)")>>
        ELSE <<Call("visit_expression", Parameterized(StringValue(JsonTypeName(json_type))))>>)

OrderToken(dir) ==
  CASE dir = "Asc" -> " ASC"
    [] dir = "Desc" -> " DESC"
    [] dir = "AscNullsFirst" -> "ASC NULLS FIRST"
    [] dir = "AscNullsLast" -> "ASC NULLS LAST"
    [] dir = "DescNullsFirst" -> "DESC NULLS FIRST"
    [] dir = "DescNullsLast" -> "DESC NULLS LAST"

visit_ordering(ordering) ==
  Separated([i \in 1..Len(ordering) |->
               <<Call("visit_expression", ordering[i].value),
                 W(IF ordering[i].order # None THEN OrderToken(ordering[i].order[1]) ELSE "")>>],
            ", ")

visit_concat(concat) ==
  surround_with("(", ")",
    Separated([i \in 1..Len(concat.exprs) |-> <<Call("visit_expression", concat.exprs[i])>>],
              " || "))

visit_to_jsonb(to_jsonb) ==
  <<W("to_jsonb("),
    Call("visit_table", [table |-> to_jsonb.table, include_alias |-> FALSE]),
    W(".*)")>>

visit_json_agg(json_agg) ==
  <<W("json_agg(")>>
  \o (IF json_agg.distinct THEN <<W("DISTINCT ")>> ELSE <<>>)
  \o <<Call("visit_expression", json_agg.expression)>>
  \o (IF json_agg.order_by # None
        THEN <<W(" ORDER BY "), Call("visit_ordering", json_agg.order_by[1])>>
        ELSE <<>>)
  \o <<W(")")>>

visit_encode(encode) ==
  <<W("encode("), Call("visit_expression", encode.expression), W(", "),
    W(CASE encode.format = "Base64" -> "'base64'"
        [] encode.format = "Escape" -> "'escape'"
        [] encode.format = "Hex" -> "'hex'"),
    W(")")>>

(***************************************************************************)
(* visit_compare and visit_function (renderer.rs).                         *)
(***************************************************************************)
visit_compare(compare) ==
  LET a == compare.args IN
  CASE compare.cmp = "Equals" -> visit_equals(a[1], a[2])
    [] compare.cmp = "NotEquals" -> visit_not_equals(a[1], a[2])
    [] compare.cmp = "LessThan" -> visit_less_than(a[1], a[2])
    [] compare.cmp = "LessThanOrEquals" -> visit_less_than_or_equals(a[1], a[2])
    [] compare.cmp = "GreaterThan" -> visit_greater_than(a[1], a[2])
    [] compare.cmp = "GreaterThanOrEquals" -> visit_greater_than_or_equals(a[1], a[2])
    [] compare.cmp = "In" -> visit_compare_In(a[1], a[2])
    [] compare.cmp = "NotIn" -> visit_compare_NotIn(a[1], a[2])
    [] compare.cmp = "Like" -> visit_like(a[1], a[2])
    [] compare.cmp = "NotLike" -> visit_not_like(a[1], a[2])
    [] compare.cmp = "Null" -> <<Call("visit_expression", a[1]), W(" IS NULL")>>
    [] compare.cmp = "NotNull" -> <<Call("visit_expression", a[1]), W(" IS NOT NULL")>>
    [] compare.cmp = "Between" ->
         <<Call("visit_expression", a[1]), W(" BETWEEN "),
           Call("visit_expression", a[2]), W(" AND "),
           Call("visit_expression", a[3])>>
    [] compare.cmp = "NotBetween" ->
         <<Call("visit_expression", a[1]), W(" NOT BETWEEN "),
           Call("visit_expression", a[2]), W(" AND "),
           Call("visit_expression", a[3])>>
    [] compare.cmp = "Raw" ->
         <<Call("visit_expression", a[1]), W(" "), W(compare.extra), W(" "),
           Call("visit_expression", a[2])>>
    [] compare.cmp = "ArrayContains" -> visit_array_contains(a[1], a[2], FALSE)
    [] compare.cmp = "ArrayContained" -> visit_array_contained(a[1], a[2], FALSE)
    [] compare.cmp = "ArrayOverlaps" -> visit_array_overlaps(a[1], a[2])
    [] compare.cmp = "ArrayNotContains" -> visit_array_contains(a[1], a[2], TRUE)
    [] compare.cmp = "TypeEquals" -> visit_json_type_equals(a[1], compare.extra, FALSE)
    [] compare.cmp = "TypeNotEquals" -> visit_json_type_equals(a[1], compare.extra, TRUE)
    [] compare.cmp = "Any" ->
         <<W("ANY")>> \o surround_with("(", ")", <<Call("visit_expression", a[1])>>)
    [] compare.cmp = "All" ->
         <<W("ALL")>> \o surround_with("(", ")", <<Call("visit_expression", a[1])>>)

visit_average(avg) ==
  <<W("AVG")>> \o surround_with("(", ")", <<Call("visit_column", avg.column)>>)

visit_function(fun) ==
  LET f == fun.typ_ IN
  (CASE f.fn = "Count" ->
          IF Len(f.exprs) = 0
            THEN <<W("COUNT(*)")>>
            ELSE <<W("COUNT")>> \o surround_with("(", ")", <<Call("visit_columns", f.exprs)>>)
     [] f.fn = "AggregateToString" -> <<Call("visit_aggregate_to_string", f.value)>>
     [] f.fn = "RowToJson" ->
          <<W("ROW_TO_JSON")>>
          \o surround_with("(", ")",
               <<Call("visit_table", [table |-> f.expr, include_alias |-> FALSE])>>)
     [] f.fn = "Average" -> <<Call("visit_average", f)>>
     [] f.fn = "Sum" ->
          <<W("SUM")>> \o surround_with("(", ")", <<Call("visit_expression", f.expr)>>)
     [] f.fn = "Lower" ->
          <<W("LOWER")>> \o surround_with("(", ")", <<Call("visit_expression", f.expression)>>)
     [] f.fn = "Upper" ->
          <<W("UPPER")>> \o surround_with("(", ")", <<Call("visit_expression", f.expression)>>)
     [] f.fn = "Minimum" ->
          <<W("MIN")>> \o surround_with("(", ")", <<Call("visit_column", f.column)>>)
     [] f.fn = "Maximum" ->
          <<W("MAX")>> \o surround_with("(", ")", <<Call("visit_column", f.column)>>)
     [] f.fn = "Coalesce" ->
          <<W("COALESCE")>> \o surround_with("(", ")", <<Call("visit_columns", f.exprs)>>)
     [] f.fn = "JsonExtract" -> <<Call("visit_json_extract", f)>>
     [] f.fn = "JsonExtractFirstArrayElem" ->
          <<Call("visit_json_extract_first_array_item", f)>>
     [] f.fn = "JsonExtractLastArrayElem" ->
          <<Call("visit_json_extract_last_array_item", f)>>
     [] f.fn = "JsonUnquote" -> <<Call("visit_json_unquote", f)>>
     [] f.fn = "ToJsonb" -> <<Call("visit_to_jsonb", f)>>
     [] f.fn = "JsonAgg" -> <<Call("visit_json_agg", f)>>
     [] f.fn = "Encode" -> <<Call("visit_encode", f)>>
     [] f.fn = "Concat" -> <<Call("visit_concat", f)>>)
  \o (IF fun.alias # None
        THEN <<W(" AS ")>> \o delimited_identifiers(<<fun.alias[1]>>)
        ELSE <<>>)

(***************************************************************************)
(* Dispatch of a pending call to the body of the function it names.        *)
(***************************************************************************)
Body(item) ==
  LET n == item.arg IN
  CASE item.call = "visit_query" -> visit_query(n)
    [] item.call = "visit_select" -> visit_select(n)
    [] item.call = "visit_insert" -> visit_insert(n)
    [] item.call = "visit_update" -> visit_update(n)
    [] item.call = "visit_delete" -> visit_delete(n)
    [] item.call = "visit_upsert" -> visit_upsert(n)
    [] item.call = "visit_update_set" -> visit_update_set(n)
    [] item.call = "visit_common_table_expression" -> visit_common_table_expression(n)
    [] item.call = "visit_columns" -> visit_columns(n)
    [] item.call = "visit_grouping" -> visit_grouping(n)
    [] item.call = "visit_ordering" -> visit_ordering(n)
    [] item.call = "visit_limit_and_offset" -> visit_limit_and_offset(n.limit, n.offset)
    [] item.call = "visit_joins" -> visit_joins(n)
    [] item.call = "visit_join_data" -> visit_join_data(n)
    [] item.call = "visit_table" -> visit_table(n.table, n.include_alias)
    [] item.call = "visit_column" -> visit_column(n)
    [] item.call = "visit_row" -> visit_row(n)
    [] item.call = "visit_values" -> visit_values(n)
    [] item.call = "visit_expression" -> visit_expression(n)
    [] item.call = "visit_operation" -> visit_operation(n)
    [] item.call = "visit_conditions" -> visit_conditions(n)
    [] item.call = "visit_compare" -> visit_compare(n)
    [] item.call = "visit_function" -> visit_function(n)
    [] item.call = "visit_average" -> visit_average(n)
    [] item.call = "visit_aggregate_to_string" -> visit_aggregate_to_string(n)
    [] item.call = "visit_json_extract" -> visit_json_extract(n)
    [] item.call = "visit_json_unquote" -> visit_json_unquote(n)
    [] item.call = "visit_json_extract_first_array_item" -> visit_json_extract_first_array_item(n)
    [] item.call = "visit_json_extract_last_array_item" -> visit_json_extract_last_array_item(n)
    [] item.call = "visit_to_jsonb" -> visit_to_jsonb(n)
    [] item.call = "visit_json_agg" -> visit_json_agg(n)
    [] item.call = "visit_encode" -> visit_encode(n)
    [] item.call = "visit_concat" -> visit_concat(n)

(***************************************************************************)
(* The walk run to completion: the accumulators after every item of st,    *)
(* in order, has been visited, starting from (text, params).               *)
(***************************************************************************)
Accumulators(text, params) == [query |-> text, parameters |-> params]

RECURSIVE Run(_, _)
Run(st, acc) ==
  IF Len(st) = 0 \/ Len(acc.query) < 0 THEN acc
  ELSE IF Len(st) = 1 THEN
    LET h == st[1] IN
    CASE h.call = "write" -> Accumulators(write(acc.query, h.arg), acc.parameters)
      [] h.call = "visit_parameterized" ->
           LET p == add_parameter(acc.parameters, h.arg)
           IN Accumulators(parameter_substitution(acc.query, p), p)
      [] h.call = "panic" -> acc
      [] OTHER -> Run(Body(h), acc)
  ELSE
    LET half == Len(st) \div 2
    IN Run(SubSeq(st, half + 1, Len(st)), Run(SubSeq(st, 1, half), acc))

\* Postgres::build on its own: fresh accumulators, then visit_query
build(q) == Run(<<Call("visit_query", q)>>, Accumulators(<<>>, <<>>))

(***************************************************************************)
(* The input universe.  Universes are sequences, inputs are picked by      *)
(* index.                                                                  *)
(***************************************************************************)
P(i) == Parameterized(NumberValue(i))
Col(name) == ColumnExpr(Column(name))
Users == Table("users")

\* the row ($1, ..., $n) of n literals, the first one being `from`
RowOf(from, n) == [i \in 1..n |-> P(from + i - 1)]
\* r rows of w literals each
ValuesOf(r, w) == [j \in 1..r |-> RowOf((j - 1) * w + 1, w)]

SubSelect ==
  Select_so_that(Select_value(Select_from_table(Table("posts")), Col("id")),
                 ConditionTree_single(CompareExpr(Compare("Equals", <<Col("uniq"), P(7)>>))))

Op(op, left, right) == Expression("Op", [op |-> op, left |-> left, right |-> right])

LeftOperands ==
  <<Col("a"),
    Aliased(Col("a"), "x"),
    ColumnExpr(ColumnOf("users", "a")),
    P(5),
    raw("NOW()"),
    Op("Add", Col("a"), P(6)),
    RowExpr(<<Col("a")>>),
    RowExpr(<<P(5)>>),
    RowExpr(<<Col("a"), Col("b")>>)>>

RightRows == [n \in 1..(MaxRow + 1) |-> RowExpr(RowOf(1, n - 1))]
RightValues ==
  <<ValuesExpr(<<>>)>>
  \o Concat([r \in 1..MaxRows |-> [w \in 1..MaxRow |-> ValuesExpr(ValuesOf(r, w))]])
RightOthers ==
  <<P(1), Parameterized(StringValue("s")), Aliased(P(1), "x"),
    Col("b"), SelectionExpr(SubSelect), raw("(1, 2)")>>
RightOperands == RightRows \o RightValues \o RightOthers

InCompares ==
  Concat([l \in 1..Len(LeftOperands) |->
    Concat([r \in 1..Len(RightOperands) |->
      <<Compare("In", <<LeftOperands[l], RightOperands[r]>>),
        Compare("NotIn", <<LeftOperands[l], RightOperands[r]>>)>>])])

Function(typ_) == [typ_ |-> typ_, alias |-> None]
FunctionExpr(f) == Expression("Function", f)
Fn(typ_) == FunctionExpr(Function(typ_))
Ordered(value, order) == [value |-> value, order |-> order]
JsonType(jt) == [jt |-> jt]
JsonTypeColumnRef(column) == [jt |-> "ColumnRef", column |-> column]
JsonCompareType(cmp, left, json_type) == [cmp |-> cmp, args |-> <<left>>, extra |-> json_type]

JoinData_all_from(t) == [table |-> t, conditions |-> NoCondition, lateral |-> FALSE]
Joinable_on(t, conditions) == [table |-> t, conditions |-> conditions, lateral |-> FALSE]
JoinData_lateral(data) == [data EXCEPT !.lateral = TRUE]
\* Joinable::on of a JoinData
JoinData_on(self, conditions) ==
  [table |-> self.table,
   conditions |-> IF self.conditions = NoCondition
                    THEN conditions
                    ELSE ConditionTree_and(self.conditions, ConditionTreeExpr(conditions)),
   lateral |-> FALSE]
Join(join, data) == [join |-> join, data |-> data]
JoinedTable(name, joins) ==
  [typ |-> "JoinedTable", source |-> [name |-> name, joins |-> joins],
   alias |-> None, database |-> None]
WithDatabase(t, database) == [t EXCEPT !.database = Some(database)]

\* Table::left_join, inner_join, right_join, full_join (ast/table.rs): the
\* table with the join attached, or Panicked
Panicked == [typ |-> "panic"]

Table_join(self, join) ==
  CASE self.typ = "Table" ->
         [self EXCEPT !.typ = "JoinedTable",
                      !.source = [name |-> self.source, joins |-> <<join>>]]
    [] self.typ = "JoinedTable" -> [self EXCEPT !.source.joins = Append(@, join)]
    [] self.typ = "Query" -> Panicked
    [] self.typ = "Values" -> Panicked

Table_left_join(self, join) == Table_join(self, Join("Left", join))
Table_inner_join(self, join) == Table_join(self, Join("Inner", join))
\* a right_join that wraps a table of any typ
Table_right_join_of_any(self, join) ==
  IF self.typ = "JoinedTable"
    THEN [self EXCEPT !.source.joins = Append(@, Join("Right", join))]
    ELSE [self EXCEPT !.typ = "JoinedTable",
                      !.source = [name |-> "q", joins |-> <<Join("Right", join)>>]]
Table_right_join(self, join) == Table_join(self, Join("Right", join))
Table_full_join(self, join) == Table_join(self, Join("Full", join))

Single(cmp) == ConditionTree_single(CompareExpr(cmp))
AEq(i) == Compare("Equals", <<Col("a"), P(i)>>)

BinaryCompares ==
  [i \in 1..6 |->
     Compare(<<"Equals", "NotEquals", "LessThan", "LessThanOrEquals",
               "GreaterThan", "GreaterThanOrEquals">>[i], <<Col("a"), P(1)>>)]

OtherCompares ==
  BinaryCompares
  \o <<Compare("Equals", <<Col("a"), SelectionExpr(SubSelect)>>),
       Compare("Equals", <<Col("a"), raw("$1")>>),
       Compare("Equals", <<raw("$1"), P(1)>>),
       Compare("Like", <<Col("a"), Parameterized(StringValue("%s%"))>>),
       Compare("Like", <<Fn([fn |-> "Lower", expression |-> Col("a")]),
                         Parameterized(StringValue("%s%"))>>),
       Compare("NotLike", <<Col("a"), Parameterized(StringValue("%s%"))>>),
       Compare("NotLike", <<P(1), Parameterized(StringValue("%s%"))>>),
       Compare("Like", <<Col("a"), Col("b")>>),
       Compare("NotLike", <<ColumnExpr(ColumnOf("users", "a")),
                            Fn([fn |-> "Lower", expression |-> P(1)])>>),
       Compare("Like", <<SelectionExpr(SubSelect), Parameterized(StringValue("s%"))>>),
       Compare("Null", <<Col("a")>>),
       Compare("NotNull", <<Col("a")>>),
       Compare("Between", <<Col("a"), P(1), P(2)>>),
       Compare("NotBetween", <<Col("a"), P(1), P(2)>>),
       compare_raw(Col("a"), "~", P(1)),
       compare_raw(Col("a"), "= $1 OR", P(1)),
       Compare("ArrayContains", <<Col("a"), P(1)>>),
       Compare("ArrayContained", <<Col("a"), P(1)>>),
       Compare("ArrayOverlaps", <<Col("a"), P(1)>>),
       Compare("ArrayNotContains", <<Col("a"), P(1)>>),
       JsonCompareType("TypeEquals", Col("a"), JsonType("Array")),
       JsonCompareType("TypeEquals", Col("a"), JsonType("Boolean")),
       JsonCompareType("TypeEquals", P(1), JsonType("Number")),
       JsonCompareType("TypeNotEquals", Col("a"), JsonType("Object")),
       JsonCompareType("TypeNotEquals", Col("a"), JsonType("String")),
       JsonCompareType("TypeNotEquals", Col("a"), JsonType("Null")),
       JsonCompareType("TypeEquals", Col("a"), JsonTypeColumnRef(Column("b"))),
       Compare("Equals", <<Col("a"), CompareExpr(Compare("Any", <<SelectionExpr(SubSelect)>>))>>),
       Compare("Equals", <<Col("a"), CompareExpr(Compare("All", <<P(1)>>))>>)>>

Functions ==
  <<[fn |-> "Count", exprs |-> <<>>],
    [fn |-> "Count", exprs |-> <<Col("a")>>],
    [fn |-> "AggregateToString", value |-> Col("a")],
    [fn |-> "AggregateToString", value |-> P(1)],
    [fn |-> "RowToJson", expr |-> Users, pretty_print |-> FALSE],
    [fn |-> "Average", column |-> Column("a")],
    [fn |-> "Sum", expr |-> P(1)],
    [fn |-> "Lower", expression |-> P(1)],
    [fn |-> "Upper", expression |-> Col("a")],
    [fn |-> "Minimum", column |-> Column("a")],
    [fn |-> "Maximum", column |-> ColumnOf("users", "a")],
    [fn |-> "Coalesce", exprs |-> <<Col("a"), P(1)>>],
    [fn |-> "JsonExtract", column |-> Col("a"), path |-> JsonPath_array(<<"k", "l">>),
     extract_as_string |-> FALSE],
    [fn |-> "JsonExtract", column |-> P(1), path |-> JsonPath_array(<<"k">>),
     extract_as_string |-> TRUE],
    [fn |-> "JsonExtract", column |-> Col("a"), path |-> JsonPath_array(<<>>),
     extract_as_string |-> TRUE],
    [fn |-> "JsonExtract", column |-> Col("a"), path |-> JsonPath_string("$.k"),
     extract_as_string |-> FALSE],
    [fn |-> "JsonExtractFirstArrayElem", expr |-> Col("a")],
    [fn |-> "JsonExtractLastArrayElem", expr |-> P(1)],
    [fn |-> "JsonUnquote", expr |-> Col("a")],
    [fn |-> "ToJsonb", table |-> Users],
    [fn |-> "JsonAgg", expression |-> Col("a"), distinct |-> TRUE,
     order_by |-> Some(<<Ordered(Col("b"), Some("Desc"))>>)],
    [fn |-> "JsonAgg", expression |-> P(1), distinct |-> FALSE, order_by |-> None],
    [fn |-> "Encode", expression |-> P(1), format |-> "Base64"],
    [fn |-> "Encode", expression |-> Col("a"), format |-> "Escape"],
    [fn |-> "Encode", expression |-> Col("a"), format |-> "Hex"],
    [fn |-> "Concat", exprs |-> <<P(1), Col("a"), P(2)>>]>>

Conditions ==
  [i \in 1..Len(InCompares) |-> Single(InCompares[i])]
  \o [i \in 1..Len(OtherCompares) |-> Single(OtherCompares[i])]
  \o <<NoCondition,
       NegativeCondition,
       ConditionTree_not(CompareExpr(AEq(1))),
       ConditionTree_exists(TableFromSelect(SubSelect)),
       ConditionTree("And", <<CompareExpr(AEq(1)),
                              ConditionTreeExpr(ConditionTree("Or", <<CompareExpr(AEq(2)),
                                                                      CompareExpr(AEq(3))>>))>>),
       ConditionTree("Or", <<CompareExpr(AEq(1)),
                             ConditionTreeExpr(ConditionTree_not(CompareExpr(AEq(2))))>>),
       ConditionTree_single(ValueExpr(SelectionExpr(SubSelect))),
       ConditionTree_single(Op("Mul", P(1), Op("Sub", Col("a"), P(2))))>>

SelectUsers == Select_from_table(Users)
Where(c) == Select_so_that(SelectUsers, c)
Select_limit(sel, n) == [sel EXCEPT !.limit = Some(n)]
Select_offset(sel, n) == [sel EXCEPT !.offset = Some(n)]
Select_and_from(sel, t) == [sel EXCEPT !.tables = Append(@, t)]
Select_join(sel, j) == [sel EXCEPT !.joins = Append(@, j)]
Select_order_by(sel, o) == [sel EXCEPT !.ordering = Append(@, o)]
Select_group_by(sel, e) == [sel EXCEPT !.grouping = Append(@, e)]
Select_having(sel, c) == [sel EXCEPT !.having = Some(c)]
Select_with(sel, cte) == [sel EXCEPT !.ctes = Append(@, cte)]
Select_distinct(sel) == [sel EXCEPT !.distinct = TRUE]
CommonTableExpression(name, q) == [name |-> name, query |-> q]

UpdateTable(t) ==
  [table |-> t, columns |-> <<>>, values |-> <<>>, conditions |-> None, returning |-> None]
Update_set(u, column, value) ==
  [u EXCEPT !.columns = Append(@, column), !.values = Append(@, value)]
Update_so_that(u, c) == [u EXCEPT !.conditions = Some(c)]
Update_returning(u, columns) == [u EXCEPT !.returning = Some(columns)]

Delete_from_table(t) == [table |-> t, conditions |-> None]
Delete_so_that(d, c) == [d EXCEPT !.conditions = Some(c)]

Insert(table, columns, values) ==
  [table |-> table, columns |-> columns, values |-> values,
   on_conflict |-> None, returning |-> None]
Insert_on_conflict(i, oc) == [i EXCEPT !.on_conflict = Some(oc)]
\* Insert::single_into, SingleRowInsert::value, From<SingleRowInsert> for Insert
Insert_single_into(table) == [table |-> Some(table), columns |-> <<>>, values |-> <<>>]
\* a value that puts the new pair in front of the earlier ones
SingleRowInsert_value_in_front(self, key, val) ==
  [self EXCEPT !.columns = <<key>> \o @, !.values = <<val>> \o @]
SingleRowInsert_value(self, key, val) ==
  [self EXCEPT !.columns = Append(@, key), !.values = Append(@, val)]
InsertFromSingleRow(insert) ==
  Insert(insert.table, insert.columns,
         IF Row_is_empty(insert.values) THEN RowExpr(<<>>) ELSE RowExpr(insert.values))
Insert_returning(i, columns) == [i EXCEPT !.returning = Some(columns)]
DoNothing == [oc |-> "DoNothing", update |-> None, constraints |-> <<>>]
OnConflictUpdate(update, constraints) ==
  [oc |-> "Update", update |-> update, constraints |-> constraints]

PostJoin ==
  Joinable_on([Table("posts") EXCEPT !.alias = Some("p")],
              Single(Compare("Equals", <<ColumnExpr(ColumnOf("p", "userId")), P(4)>>)))

Orders == <<"Asc", "Desc", "AscNullsFirst", "AscNullsLast", "DescNullsFirst", "DescNullsLast">>

UpsertUpdate ==
  Update_so_that(Update_set(UpdateTable(Users), Column("foo"), P(3)),
                 Single(Compare("Equals", <<ColumnExpr(ColumnOf("users", "foo")), P(1)>>)))

\* a Select with a nested query at every position that can hold one
NestedSelect ==
  Select_limit(
    Select_so_that(
      Select_value(
        Select_value(
          Select_and_from(
            Select_with(SelectUsers,
                        CommonTableExpression("c", QuerySelect(Where(Single(AEq(8)))))),
            [TableFromSelect(Where(Single(AEq(9)))) EXCEPT !.alias = Some("t")]),
          P(1)),
        SelectionExpr(SubSelect)),
      Single(Compare("In", <<Col("a"), SelectionExpr(Select_limit(SubSelect, 1))>>))),
    5)

RepeatSelects ==
  <<SelectUsers,
    Where(Single(AEq(1))),
    Select_offset(Select_limit(SelectUsers, 10), 2),
    Select_value(SelectUsers, P(1)),
    NestedSelect>>

\* sel with a join, a WHERE, a GROUP BY, a HAVING, an ORDER BY, a LIMIT and an
\* OFFSET
EveryClause(sel) ==
  Select_offset(
    Select_limit(
      Select_order_by(
        Select_having(
          Select_group_by(
            Select_so_that(Select_join(sel, Join("Inner", PostJoin)), Single(AEq(1))),
            Col("b")),
          Single(AEq(2))),
        Ordered(P(3), Some("Desc"))),
      10),
    2)

\* an identifier that holds the quote character: we"ird
QuoteInside == "we\"ird"

SelectVariants ==
  <<Select_limit(SelectUsers, 10),
    Select_offset(SelectUsers, 2),
    Select_limit(Where(Single(AEq(1))), 0),
    Select_value(SelectUsers, raw("$1")),
    Select_value(Select_value(SelectUsers, raw("$1")), P(1)),
    Select_value(Select_value(SelectUsers, raw("NOW()")), Aliased(P(1), "one")),
    Select_value(Select_value(SelectUsers, asterisk),
                 Expression("Asterisk", Some(Users))),
    Select_value(SelectUsers, TableExpr(Users)),
    Select_value(SelectUsers, RowExpr(RowOf(1, 2))),
    Select_value(SelectUsers, ValuesExpr(ValuesOf(2, 1))),
    Select_distinct(Select_value(SelectUsers, Aliased(Col("a"), "x"))),
    Select_value(SelectUsers,
                 ColumnExpr([name |-> "a", table |-> Some(WithDatabase(Users, "db")),
                             alias |-> Some("x")])),
    Select_from_table([Users EXCEPT !.alias = Some("u")]),
    Select_from_table(WithDatabase(Users, "db")),
    Select_and_from(SelectUsers, Table("posts")),
    Select_from_table(TableFromSelect(SubSelect)),
    Select_from_table([TableFromSelect(SubSelect) EXCEPT !.alias = Some("t")]),
    Select_from_table(TableFromValues(ValuesOf(2, 2))),
    Select_from_table([TableFromValues(ValuesOf(1, 1)) EXCEPT !.alias = Some("v")]),
    Select_and_from(Select_from_table(JoinedTable("users", <<Join("Left", PostJoin)>>)),
                    Table("toto")),
    Select_from_table([JoinedTable("users", <<Join("Inner", PostJoin),
                                              Join("Full", JoinData_all_from(Table("t")))>>)
                         EXCEPT !.alias = Some("u")]),
    Select_join(Where(Single(AEq(1))), Join("Inner", PostJoin)),
    Select_join(Select_join(SelectUsers, Join("Right", JoinData_lateral(PostJoin))),
                Join("Left", JoinData_all_from(TableFromSelect(SubSelect)))),
    Select_having(Select_group_by(Select_group_by(SelectUsers, Col("a")), P(1)),
                  Single(Compare("GreaterThan", <<Fn([fn |-> "Count", exprs |-> <<>>]), P(2)>>))),
    Select_with(Select_with(SelectUsers,
                            CommonTableExpression("c", QuerySelect(Where(Single(AEq(1)))))),
                CommonTableExpression("d", QueryDelete(Delete_so_that(Delete_from_table(Users),
                                                                      Single(AEq(2)))))),
    Select_with(SelectUsers, CommonTableExpression("c", QueryUpdate(UpsertUpdate))),
    Select_with(SelectUsers,
                CommonTableExpression("c",
                  QueryInsert(Insert(Some(Users), <<Column("a")>>, RowExpr(RowOf(1, 1)))))),
    SelectDefault,
    Select_so_that(Select_limit(Select_value(SelectDefault, P(1)), 3), Single(AEq(2))),
    Select_order_by(Select_order_by(SelectUsers, Ordered(Col("a"), None)),
                    Ordered(P(1), Some("Asc"))),
    Select_value(SelectUsers,
                 ColumnExpr([name |-> "a", table |-> Some(Aliased(Users, "u")),
                             alias |-> None])),
    Select_value(SelectUsers, Expression("Asterisk", Some(Aliased(Users, "u")))),
    Select_distinct(
      Select_and_from(
        Select_from_table(WithDatabase(JoinedTable("users", <<Join("Left", PostJoin)>>),
                                       "db")),
        TableFromSelect(SubSelect))),
    Select_so_that(
      Select_join(
        Select_join(
          Select_and_from(
            Select_from_table(JoinedTable("users",
                                          <<Join("Left", PostJoin),
                                            Join("Inner", JoinData_all_from(Table("t")))>>)),
            Table("toto")),
          Join("Right", Joinable_on(Table("r"), Single(AEq(2))))),
        Join("Full", JoinData_all_from(Table("f")))),
      Single(AEq(3))),
    Select_with(
      Select_value(
        Select_from_table(Aliased(WithDatabase(Table(QuoteInside), QuoteInside),
                                  QuoteInside)),
        Aliased(Col(QuoteInside), QuoteInside)),
      CommonTableExpression(QuoteInside, QuerySelect(SubSelect))),
    EveryClause(SelectUsers),
    EveryClause(Select_value(SelectDefault, P(9)))>>
  \o [i \in 1..Len(Orders) |-> Select_order_by(SelectUsers, Ordered(Col("a"), Some(Orders[i])))]
  \o [i \in 1..Len(Functions) |-> Select_value(SelectUsers, Fn(Functions[i]))]
  \o <<Select_value(SelectUsers,
                    FunctionExpr([typ_ |-> Functions[7], alias |-> Some("total")]))>>

Selects ==
  RepeatSelects \o SelectVariants \o [i \in 1..Len(Conditions) |-> Where(Conditions[i])]

RepeatOthers ==
  <<QueryDelete(Delete_from_table(Users)),
    QueryUpdate(Update_so_that(Update_set(UpdateTable(Users), Column("foo"), P(1)),
                               Single(Compare("Equals",
                                              <<Col("bar"), SelectionExpr(SubSelect)>>)))),
    QueryInsert(Insert_returning(
                  Insert_on_conflict(Insert(Some(Users), <<Column("foo")>>,
                                            RowExpr(RowOf(10, 1))),
                                     OnConflictUpdate(UpsertUpdate, <<Column("foo")>>)),
                  <<Column("foo")>>))>>

\* Insert::single_into("users").value("b", 7).value("a", default_value()).value("c", 5)
ThreeValueCalls ==
  SingleRowInsert_value(
    SingleRowInsert_value(
      SingleRowInsert_value(Insert_single_into(Users), Column("b"), P(7)),
      Column("a"), default_value),
    Column("c"), P(5))

OtherQueries ==
  <<QueryDelete(Delete_so_that(Delete_from_table(Users), Single(AEq(1)))),
    QueryUpdate(UpdateTable(Users)),
    QueryUpdate(Update_set(Update_set(UpdateTable(Users), Column("a"), P(1)),
                           Column("b"), default_value)),
    QueryUpdate(Update_returning(Update_set(UpdateTable(Users), Column("a"), raw("$1")),
                                 <<Column("a"), Column("b")>>)),
    QueryInsert(Insert(Some(Users), <<>>, RowExpr(<<>>))),
    QueryInsert(Insert(None, <<>>, RowExpr(<<>>))),
    QueryInsert(Insert(Some(Users), <<Column("a"), Column("b")>>,
                       RowExpr(<<P(1), default_value>>))),
    QueryInsert(Insert(Some(Users), <<Column("a")>>, ValuesExpr(ValuesOf(2, 1)))),
    QueryInsert(Insert(Some(Users), <<Column("a")>>, ValuesExpr(<<>>))),
    QueryInsert(Insert(Some(Users), <<Column("a")>>, SelectionExpr(SubSelect))),
    QueryInsert(Insert_on_conflict(Insert(Some(Users), <<Column("a")>>,
                                          RowExpr(RowOf(1, 1))), DoNothing)),
    QueryInsert(Insert_on_conflict(
                  Insert(Some(Users), <<Column("a")>>, RowExpr(RowOf(1, 1))),
                  OnConflictUpdate(Update_set(UpdateTable(Users), Column("a"), P(2)),
                                   <<Column("a"), Column("b")>>))),
    QueryInsert(Insert_returning(Insert(Some(Users), <<Column("a")>>,
                                        RowExpr(RowOf(1, 1))), <<>>)),
    QueryInsert(Insert(Some(Aliased(Users, "u")), <<Aliased(Column("a"), "x")>>,
                       RowExpr(RowOf(1, 1)))),
    QueryUpdate(Update_set(UpdateTable(Aliased(Users, "u")),
                           Aliased(Column("a"), "x"), P(1))),
    QueryInsert(Insert_on_conflict(
                  Insert(Some(Users), <<Column("a")>>, RowExpr(RowOf(1, 1))),
                  OnConflictUpdate(UpdateTable(Users), <<>>))),
    QueryInsert(InsertFromSingleRow(Insert_single_into(Aliased(WithDatabase(Users, "db"), "u")))),
    QueryInsert(InsertFromSingleRow(ThreeValueCalls)),
    QueryInsert(Insert_returning(
                  Insert_on_conflict(
                    Insert(Some(Users), <<Column("a"), Column("b")>>, RowExpr(RowOf(1, 2))),
                    OnConflictUpdate(
                      Update_returning(
                        Update_so_that(
                          Update_set(Update_set(UpdateTable(Table("other")),
                                                Column("a"), P(3)),
                                     ColumnOf("users", "b"), P(4)),
                          Single(AEq(5))),
                        <<Column("c")>>),
                      <<ColumnOf("users", "a"), Aliased(Column("b"), "x")>>)),
                  <<Column("a")>>))>>

RepeatQueries ==
  [i \in 1..Len(RepeatSelects) |-> QuerySelect(RepeatSelects[i])] \o RepeatOthers

Queries ==
  RepeatQueries
  \o [i \in 1..(Len(SelectVariants) + Len(Conditions)) |->
        QuerySelect(Selects[Len(RepeatSelects) + i])]
  \o OtherQueries

\* operands of a.and(b).and(c) ... chains
ChainOperands ==
  <<AEq(1),
    Compare("Equals", <<Col("b"), P(2)>>),
    Compare("Equals", <<Col("c"), P(3)>>),
    Compare("In", <<Col("a"), RowExpr(<<>>)>>)>>

\* trees of every shape that and / or can be called on; And and Or trees are
\* made by the calls themselves
ChainTrees ==
  <<NoCondition,
    NegativeCondition,
    ConditionTree_not(CompareExpr(AEq(1))),
    ConditionTree_exists(TableFromSelect(SubSelect)),
    Single(AEq(1))>>

\* operands of ConditionTree::and / or: comparisons, and whole And / Or trees
TreeOperands ==
  [i \in 1..Len(ChainOperands) |-> CompareExpr(ChainOperands[i])]
  \o <<ConditionTreeExpr(Conjunctive_and(CompareExpr(AEq(4)), CompareExpr(AEq(5)))),
       ConditionTreeExpr(Conjunctive_or(CompareExpr(AEq(4)), CompareExpr(AEq(5))))>>

\* tables that a join is attached to, of every typ
JoinTables ==
  <<Users,
    Aliased(WithDatabase(Users, "db"), "u"),
    TableFromSelect(SubSelect),
    Aliased(TableFromValues(ValuesOf(1, 1)), "v")>>

\* the conditions passed to so_that, and_where and or_where
WhereOperands ==
  <<Single(AEq(1)), Single(AEq(2)),
    Conjunctive_or(CompareExpr(AEq(4)), CompareExpr(AEq(5)))>>

\* what is attached
JoinOperands == <<PostJoin, JoinData_lateral(JoinData_all_from(Table("t")))>>

\* the joins that lateral() and on(..) are called on
JoinSubjects ==
  <<JoinData_all_from(Table("posts")),
    Joinable_on(Aliased(Table("posts"), "p"), Single(AEq(3)))>>

(***************************************************************************)
(* The state machine.  A value is constructed with the builder methods,    *)
(* then handed to Postgres::build, which walks it step by step.            *)
(***************************************************************************)
Subject(what, it, id) == [what |-> what, it |-> it, id |-> id]

\* the Query that the constructed value is built as
ToQuery(s) ==
  CASE s.what = "Query" -> s.it
    [] s.what = "ConditionTree" -> QuerySelect(Where(s.it))
    [] s.what = "Compare" -> QuerySelect(Where(Single(s.it)))
    [] s.what = "Table" -> QuerySelect(Select_from_table(s.it))
    [] s.what = "Select" -> QuerySelect(s.it)
    [] s.what = "JoinData" -> QuerySelect(Select_join(SelectUsers, Join("Inner", s.it)))

Init ==
  /\ pc = "construct"
  /\ \/ \E i \in 1..Len(Queries) : subject = Subject("Query", Queries[i], i)
     \/ \E i \in 1..Len(ChainOperands) : subject = Subject("Compare", ChainOperands[i], 0)
     \/ \E i \in 1..Len(ChainTrees) : subject = Subject("ConditionTree", ChainTrees[i], 0)
     \/ \E i \in 1..Len(JoinTables) : subject = Subject("Table", JoinTables[i], 0)
     \/ subject = Subject("Select", SelectUsers, 0)
     \/ \E i \in 1..Len(JoinSubjects) : subject = Subject("JoinData", JoinSubjects[i], 0)
  /\ log = CASE subject.what = "Compare" ->
                  <<[op |-> "start", e |-> CompareExpr(subject.it)]>>
             [] subject.what = "ConditionTree" ->
                  <<[op |-> "tree", e |-> ConditionTreeExpr(subject.it)]>>
             [] subject.what = "Table" ->
                  <<[op |-> "table", e |-> TableExpr(subject.it)]>>
             [] OTHER -> <<>>
  /\ stack = <<>>
  /\ query = <<>>
  /\ parameters = <<>>
  /\ current = None
  /\ done = <<>>

Walk == <<stack, query, parameters, current, done>>

\* Conjunctive::and on a comparison
ConjunctiveAnd ==
  /\ pc = "construct" /\ subject.what = "Compare" /\ Len(log) < MaxChain
  /\ \E i \in 1..Len(ChainOperands) :
       LET other == CompareExpr(ChainOperands[i]) IN
       /\ subject' = Subject("ConditionTree",
                             Conjunctive_and(CompareExpr(subject.it), other), 0)
       /\ log' = Append(log, [op |-> "and", e |-> other])
  /\ UNCHANGED <<pc, Walk>>

\* Conjunctive::or on a comparison
ConjunctiveOr ==
  /\ pc = "construct" /\ subject.what = "Compare" /\ Len(log) < MaxChain
  /\ \E i \in 1..Len(ChainOperands) :
       LET other == CompareExpr(ChainOperands[i]) IN
       /\ subject' = Subject("ConditionTree",
                             Conjunctive_or(CompareExpr(subject.it), other), 0)
       /\ log' = Append(log, [op |-> "or", e |-> other])
  /\ UNCHANGED <<pc, Walk>>

\* ConditionTree::and
And ==
  /\ pc = "construct" /\ subject.what = "ConditionTree" /\ Len(log) < MaxChain
  /\ \E i \in 1..Len(TreeOperands) :
       LET other == TreeOperands[i] IN
       /\ subject' = Subject("ConditionTree", ConditionTree_and(subject.it, other), 0)
       /\ log' = Append(log, [op |-> "and", e |-> other])
  /\ UNCHANGED <<pc, Walk>>

\* ConditionTree::or
Or ==
  /\ pc = "construct" /\ subject.what = "ConditionTree" /\ Len(log) < MaxChain
  /\ \E i \in 1..Len(TreeOperands) :
       LET other == TreeOperands[i] IN
       /\ subject' = Subject("ConditionTree", ConditionTree_or(subject.it, other), 0)
       /\ log' = Append(log, [op |-> "or", e |-> other])
  /\ UNCHANGED <<pc, Walk>>

\* select.so_that(c), select.and_where(c), select.or_where(c)
SoThat ==
  /\ pc = "construct" /\ subject.what = "Select" /\ Len(log) < MaxChain
  /\ \E i \in 1..Len(WhereOperands) :
       /\ subject' = Subject("Select", Select_so_that(subject.it, WhereOperands[i]), 0)
       /\ log' = Append(log, [op |-> "so_that", e |-> ConditionTreeExpr(WhereOperands[i])])
  /\ UNCHANGED <<pc, Walk>>

AndWhere ==
  /\ pc = "construct" /\ subject.what = "Select" /\ Len(log) < MaxChain
  /\ \E i \in 1..Len(WhereOperands) :
       /\ subject' = Subject("Select", Select_and_where(subject.it, WhereOperands[i]), 0)
       /\ log' = Append(log, [op |-> "and_where", e |-> ConditionTreeExpr(WhereOperands[i])])
  /\ UNCHANGED <<pc, Walk>>

OrWhere ==
  /\ pc = "construct" /\ subject.what = "Select" /\ Len(log) < MaxChain
  /\ \E i \in 1..Len(WhereOperands) :
       /\ subject' = Subject("Select", Select_or_where(subject.it, WhereOperands[i]), 0)
       /\ log' = Append(log, [op |-> "or_where", e |-> ConditionTreeExpr(WhereOperands[i])])
  /\ UNCHANGED <<pc, Walk>>

\* join.lateral()
Lateral ==
  /\ pc = "construct" /\ subject.what = "JoinData" /\ Len(log) < MaxChain
  /\ subject' = Subject("JoinData", JoinData_lateral(subject.it), 0)
  /\ log' = Append(log, [op |-> "lateral", e |-> TableExpr(subject.it.table)])
  /\ UNCHANGED <<pc, Walk>>

\* join.on(c)
On ==
  /\ pc = "construct" /\ subject.what = "JoinData" /\ Len(log) < MaxChain
  /\ \E i \in 1..Len(WhereOperands) :
       /\ subject' = Subject("JoinData", JoinData_on(subject.it, WhereOperands[i]), 0)
       /\ log' = Append(log, [op |-> "on", e |-> ConditionTreeExpr(WhereOperands[i])])
  /\ UNCHANGED <<pc, Walk>>

\* table.left_join(join) and the like: joined is what the method returns; a
\* panic aborts the program
Attach(op, joined, join) ==
  IF joined = Panicked
    THEN /\ pc' = "panicked"
         /\ UNCHANGED <<subject, log, Walk>>
    ELSE /\ subject' = Subject("Table", joined, 0)
         /\ log' = Append(log, [op |-> op, e |-> join])
         /\ UNCHANGED <<pc, Walk>>

LeftJoin ==
  /\ pc = "construct" /\ subject.what = "Table" /\ Len(log) < MaxChain
  /\ \E i \in 1..Len(JoinOperands) :
       Attach("left_join", Table_left_join(subject.it, JoinOperands[i]), JoinOperands[i])

InnerJoin ==
  /\ pc = "construct" /\ subject.what = "Table" /\ Len(log) < MaxChain
  /\ \E i \in 1..Len(JoinOperands) :
       Attach("inner_join", Table_inner_join(subject.it, JoinOperands[i]), JoinOperands[i])

RightJoin ==
  /\ pc = "construct" /\ subject.what = "Table" /\ Len(log) < MaxChain
  /\ \E i \in 1..Len(JoinOperands) :
       Attach("right_join", Table_right_join(subject.it, JoinOperands[i]), JoinOperands[i])

FullJoin ==
  /\ pc = "construct" /\ subject.what = "Table" /\ Len(log) < MaxChain
  /\ \E i \in 1..Len(JoinOperands) :
       Attach("full_join", Table_full_join(subject.it, JoinOperands[i]), JoinOperands[i])

\* a build that goes on with the accumulators of the build before it
BuildReusing ==
  /\ pc = "construct"
  /\ pc' = "walking"
  /\ current' = Some([query |-> ToQuery(subject), id |-> subject.id])
  /\ stack' = <<Call("visit_query", ToQuery(subject))>>
  /\ UNCHANGED <<subject, log, done, query, parameters>>

\* Postgres::build, up to the call of visit_query
Build ==
  /\ pc = "construct"
  /\ pc' = "walking"
  /\ current' = Some([query |-> ToQuery(subject), id |-> subject.id])
  /\ query' = <<>>
  /\ parameters' = <<>>
  /\ stack' = <<Call("visit_query", ToQuery(subject))>>
  /\ UNCHANGED <<subject, log, done>>

\* a visit function is entered: its body replaces the call
Visit ==
  /\ pc = "walking" /\ Len(stack) > 0
  /\ Head(stack).call \notin {"write", "visit_parameterized"}
  /\ LET body == Body(Head(stack))
     IN IF Panics(body)
          THEN pc' = "aborted" /\ UNCHANGED stack
          ELSE pc' = pc /\ stack' = body \o Tail(stack)
  /\ UNCHANGED <<subject, log, query, parameters, current, done>>

\* Postgres::write
Write ==
  /\ pc = "walking" /\ Len(stack) > 0
  /\ Head(stack).call = "write"
  /\ query' = write(query, Head(stack).arg)
  /\ stack' = Tail(stack)
  /\ UNCHANGED <<pc, subject, log, parameters, current, done>>

\* Renderer::visit_parameterized: add_parameter, then parameter_substitution
VisitParameterized ==
  /\ pc = "walking" /\ Len(stack) > 0
  /\ Head(stack).call = "visit_parameterized"
  /\ parameters' = add_parameter(parameters, Head(stack).arg)
  /\ query' = parameter_substitution(query, parameters')
  /\ stack' = Tail(stack)
  /\ UNCHANGED <<pc, subject, log, current, done>>

\* Postgres::build returns (query, parameters)
Return ==
  /\ pc = "walking" /\ Len(stack) = 0
  /\ pc' = "returned"
  /\ done' = Append(done, [id |-> current[1].id, query |-> query,
                           parameters |-> parameters])
  /\ UNCHANGED <<subject, log, stack, query, parameters, current>>

\* the caller goes on to build another query
Again ==
  /\ pc = "returned"
  /\ Len(done) < MaxBuilds
  /\ \A k \in 1..Len(done) : done[k].id \in 1..Len(RepeatQueries)
  /\ \E i \in 1..Len(RepeatQueries) : subject' = Subject("Query", RepeatQueries[i], i)
  /\ pc' = "construct"
  /\ log' = <<>>
  /\ UNCHANGED Walk

Next ==
  \/ ConjunctiveAnd
  \/ ConjunctiveOr
  \/ And
  \/ Or
  \/ LeftJoin
  \/ InnerJoin
  \/ RightJoin
  \/ FullJoin
  \/ SoThat
  \/ AndWhere
  \/ OrWhere
  \/ Lateral
  \/ On
  \/ Build
  \/ Visit
  \/ Write
  \/ VisitParameterized
  \/ Return
  \/ Again

Spec == Init /\ [][Next]_vars

(***************************************************************************)
(* Placeholders of a text.  The renderer writes a placeholder as the token *)
(* "$" followed by its number; a verbatim fragment may carry one inside.   *)
(***************************************************************************)
\* the verbatim strings of the universe in which a `$n` occurs
RawPlaceholders == {"$1", "= $1 OR"}

PlaceholdersIn(token) == IF token = "$" \/ token \in RawPlaceholders THEN 1 ELSE 0

Placeholders(text) == Cardinality({i \in DOMAIN text : PlaceholdersIn(text[i]) = 1})

VerbatimPlaceholder(text) == \E i \in DOMAIN text : text[i] \in RawPlaceholders

AtVisitParameterized ==
  pc = "walking" /\ Len(stack) > 0 /\ Head(stack).call = "visit_parameterized"

\* C1 as stated: in every state of a build, and so after every completed
\* visit_parameterized step and in the pair build returns, the text holds as
\* many `$n` placeholders as the parameter list has elements, for every Query.
C1_Parity == Placeholders(query) = Len(parameters)

\* C1 amended: for every Query whose Raw fragments and raw comparators hold no
\* `$`, the number of `$n` placeholders in the text equals the length of the
\* parameter list after every step of the walk and in the returned pair.
C1_ParityWithoutRawPlaceholder ==
  ~VerbatimPlaceholder(query) => Placeholders(query) = Len(parameters)

\* C1 witness: a build returned a text with three or more placeholders and no
\* verbatim `$`.
C1_Witness ==
  pc = "returned" /\ ~VerbatimPlaceholder(query) /\ Placeholders(query) >= 3

\* C2 as stated: the placeholder written by a visit_parameterized step is `$k`,
\* k - 1 being the number of `$n` placeholders already in the text, and its
\* value becomes parameters[k].
C2_Numbering ==
  [][AtVisitParameterized =>
       LET k == Placeholders(query) + 1
       IN /\ query' = query \o <<"$", ToString(k)>>
          /\ parameters' = Append(parameters, Head(stack).arg)
          /\ Len(parameters') = k]_vars

\* C2 amended: within one build of a Query whose Raw fragments hold no `$`, the
\* k-th placeholder written is `$k` and its value is stored as parameters[k];
\* the count never restarts in a nested query.
C2_NumberingWithoutRawPlaceholder ==
  [][(AtVisitParameterized /\ ~VerbatimPlaceholder(query)) =>
       LET k == Placeholders(query) + 1
       IN /\ query' = query \o <<"$", ToString(k)>>
          /\ parameters' = Append(parameters, Head(stack).arg)
          /\ Len(parameters') = k]_vars

\* C2 witness: a build with nested SELECTs returned, its last placeholder being
\* the fifth or a later one.
C2_Witness ==
  /\ pc = "returned"
  /\ ~VerbatimPlaceholder(query)
  /\ Cardinality({i \in DOMAIN query : query[i] = "SELECT "}) >= 3
  /\ Len(parameters) >= 5
  /\ query[Len(query) - 1] = "$"
  /\ query[Len(query)] = ToString(Len(parameters))

(***************************************************************************)
(* The same Query with other literals: every Parameterized value, every    *)
(* LIMIT / OFFSET number and every JSON path key is replaced by another    *)
(* one; structure, identifiers and Raw fragments stay as they are.         *)
(***************************************************************************)
OtherValue(v) == [type |-> v.type, repr |-> v.repr \o "0"]
OtherNumber(n) == n * 10
OtherKey(k) == k \o "0"

RECURSIVE OtherExpression(_), OtherTree(_), OtherTable(_), OtherSelect(_), OtherQuery(_)

OtherRow(row) == [i \in 1..Len(row) |-> OtherExpression(row[i])]
OtherRows(rows) == [i \in 1..Len(rows) |-> OtherRow(rows[i])]
OtherOption(o, Other(_)) == IF o = None THEN None ELSE Some(Other(o[1]))
OtherOrdering(ordering) ==
  [i \in 1..Len(ordering) |-> [ordering[i] EXCEPT !.value = OtherExpression(@)]]

OtherFunction(fun) ==
  LET f == fun.typ_ IN
  [fun EXCEPT !.typ_ =
     CASE f.fn \in {"Count", "Coalesce", "Concat"} -> [f EXCEPT !.exprs = OtherRow(@)]
       [] f.fn = "AggregateToString" -> [f EXCEPT !.value = OtherExpression(@)]
       [] f.fn \in {"Sum", "JsonUnquote", "JsonExtractFirstArrayElem",
                    "JsonExtractLastArrayElem"} -> [f EXCEPT !.expr = OtherExpression(@)]
       [] f.fn \in {"Lower", "Upper", "Encode"} ->
            [f EXCEPT !.expression = OtherExpression(@)]
       [] f.fn = "JsonAgg" ->
            [f EXCEPT !.expression = OtherExpression(@),
                      !.order_by = IF @ = None THEN None ELSE Some(OtherOrdering(@[1]))]
       [] f.fn = "JsonExtract" ->
            [f EXCEPT !.column = OtherExpression(@),
                      !.path = IF @.notation = "Array"
                                 THEN JsonPath_array([i \in 1..Len(@.path) |-> OtherKey(@.path[i])])
                                 ELSE @]
       [] f.fn \in {"RowToJson", "ToJsonb", "Average", "Minimum", "Maximum"} -> f]

OtherCompare(c) == [c EXCEPT !.args = OtherRow(@)]

OtherExpression(e) ==
  [e EXCEPT !.val =
     CASE e.kind = "Parameterized" -> OtherValue(e.val)
       [] e.kind = "Value" -> OtherExpression(e.val)
       [] e.kind = "Row" -> OtherRow(e.val)
       [] e.kind = "Values" -> OtherRows(e.val)
       [] e.kind = "Selection" -> OtherSelect(e.val)
       [] e.kind = "ConditionTree" -> OtherTree(e.val)
       [] e.kind = "Compare" -> OtherCompare(e.val)
       [] e.kind = "Function" -> OtherFunction(e.val)
       [] e.kind = "Op" ->
            [e.val EXCEPT !.left = OtherExpression(@), !.right = OtherExpression(@)]
       [] e.kind = "Table" -> OtherTable(e.val)
       [] e.kind \in {"Raw", "Column", "Asterisk", "Default"} -> e.val]

OtherTree(t) ==
  CASE t.ct \in {"And", "Or"} -> [t EXCEPT !.cond = OtherRow(@)]
    [] t.ct \in {"Not", "Single"} -> [t EXCEPT !.cond = OtherExpression(@)]
    [] t.ct = "Exists" -> [t EXCEPT !.cond = OtherTable(@)]
    [] t.ct \in {"NoCondition", "NegativeCondition"} -> t

OtherJoins(joins) ==
  [i \in 1..Len(joins) |->
     [joins[i] EXCEPT !.data.table = OtherTable(@), !.data.conditions = OtherTree(@)]]

OtherTable(t) ==
  CASE t.typ = "Table" -> t
    [] t.typ = "Values" -> [t EXCEPT !.source = OtherRows(@)]
    [] t.typ = "Query" -> [t EXCEPT !.source = OtherSelect(@)]
    [] t.typ = "JoinedTable" -> [t EXCEPT !.source.joins = OtherJoins(@)]

OtherSelect(sel) ==
  [sel EXCEPT
     !.ctes = [i \in 1..Len(@) |-> [@[i] EXCEPT !.query = OtherQuery(@)]],
     !.tables = [i \in 1..Len(@) |-> OtherTable(@[i])],
     !.columns = OtherRow(@),
     !.conditions = OtherOption(@, OtherTree),
     !.ordering = OtherOrdering(@),
     !.grouping = OtherRow(@),
     !.having = OtherOption(@, OtherTree),
     !.limit = OtherOption(@, OtherNumber),
     !.offset = OtherOption(@, OtherNumber),
     !.joins = OtherJoins(@)]

OtherUpdate(u) ==
  [u EXCEPT !.table = OtherTable(@), !.values = OtherRow(@),
            !.conditions = OtherOption(@, OtherTree)]

OtherInsert(ins) ==
  [ins EXCEPT
     !.table = OtherOption(@, OtherTable),
     !.values = OtherExpression(@),
     !.on_conflict = IF @ = None \/ @[1].oc = "DoNothing" THEN @
                     ELSE Some([@[1] EXCEPT !.update = OtherUpdate(@)])]

OtherDelete(d) ==
  [d EXCEPT !.table = OtherTable(@), !.conditions = OtherOption(@, OtherTree)]

OtherQuery(q) ==
  [q EXCEPT !.stmt =
     CASE q.q = "Select" -> OtherSelect(q.stmt)
       [] q.q = "Insert" -> OtherInsert(q.stmt)
       [] q.q = "Update" -> OtherUpdate(q.stmt)
       [] q.q = "Delete" -> OtherDelete(q.stmt)]

\* C3: the text a build returns is, token for token, the text of the same
\* Query with every literal, LIMIT / OFFSET number and JSON path key replaced;
\* the two builds differ in their parameter lists only.
C3_TextIndependentOfLiterals ==
  pc = "returned" =>
    LET other == build(OtherQuery(current[1].query))
    IN /\ other.query = query
       /\ Len(other.parameters) = Len(parameters)
       /\ \A k \in DOMAIN parameters :
            \/ other.parameters[k] = OtherValue(parameters[k])
            \/ other.parameters[k] = parameters[k]

\* C3 witness: a build with a LIMIT returned; the same Query with other
\* literals binds other values at every position.
C3_Witness ==
  /\ pc = "returned"
  /\ \E i \in DOMAIN query : query[i] = " LIMIT "
  /\ Len(parameters) >= 2
  /\ LET other == build(OtherQuery(current[1].query))
     IN \A k \in DOMAIN parameters : other.parameters[k] # parameters[k]

\* C4: two builds of the same Query in one sequence of builds return the same
\* pair, and the pair a build returns is the pair of that Query built alone,
\* from an empty text and an empty parameter list.
C4_BuildDependsOnQueryOnly ==
  /\ \A j, k \in DOMAIN done :
       done[j].id = done[k].id =>
         done[j].query = done[k].query /\ done[j].parameters = done[k].parameters
  /\ pc = "returned" =>
       LET alone == build(current[1].query)
       IN /\ done[Len(done)].query = alone.query
          /\ done[Len(done)].parameters = alone.parameters
          /\ query = alone.query
          /\ parameters = alone.parameters

\* C4 witness: a Query with parameters was built, then another one, then the
\* first one again.
C4_Witness ==
  /\ pc = "returned"
  /\ Len(done) >= 3
  /\ done[1].id = done[3].id
  /\ done[2].id # done[1].id
  /\ Len(done[1].parameters) > 0
  /\ Len(done[2].parameters) > 0

IsPrefix(s, t) == Len(s) <= Len(t) /\ SubSeq(t, 1, Len(s)) = s

\* C5: every step of a build leaves the text and the parameter list it found
\* as a prefix of the text and of the parameter list it leaves.
C5_AppendOnly ==
  [][pc = "walking" => IsPrefix(query, query') /\ IsPrefix(parameters, parameters')]_vars

\* C5 witness: a walk under way, with text and parameters written and calls
\* still pending.
C5_Witness ==
  pc = "walking" /\ Len(stack) > 0 /\ Len(query) > Len(parameters) /\ Len(parameters) > 1

(***************************************************************************)
(* Builds of SELECT "users".* FROM "users" WHERE <In / NotIn comparison>.  *)
(***************************************************************************)
WherePrefix ==
  <<"SELECT ", "\"", "users", "\"", ".*", " FROM ", "\"", "users", "\"", " WHERE ">>

FirstCondition == Len(RepeatQueries) + Len(SelectVariants)

\* the build at hand is the build of such a Query
InBuild ==
  /\ current # None
  /\ current[1].id > FirstCondition
  /\ current[1].id <= FirstCondition + Len(InCompares)

\* its comparison and the operands of it
InOf == InCompares[current[1].id - FirstCondition]
InLeft == InOf.args[1]
InRight == InOf.args[2]

\* the accumulators after the items are visited behind the WHERE keyword
AfterWhere(items) == Run(items, Accumulators(WherePrefix, <<>>))

\* C6: an In whose right operand is an empty Row is rendered as the one token
\* 1=0, a NotIn as 1=1, whatever the left operand, and no parameter is bound.
C6_EmptyRowCollapses ==
  (pc = "returned" /\ InBuild /\ InRight.kind = "Row" /\ Len(InRight.val) = 0) =>
    /\ query = Append(WherePrefix, IF InOf.cmp = "In" THEN "1=0" ELSE "1=1")
    /\ parameters = <<>>

\* C6 witness: a NotIn of a parameterized left operand and the empty Row was
\* built.
C6_Witness ==
  /\ pc = "returned" /\ InBuild
  /\ InOf.cmp = "NotIn"
  /\ InLeft.kind = "Parameterized"
  /\ InRight.kind = "Row" /\ Len(InRight.val) = 0

\* C7: an In whose right operand is a Values of zero rows is rendered as 1=0,
\* a NotIn as 1=1, whatever the left operand, and no IN is written.
C7_EmptyValuesCollapse ==
  (pc = "returned" /\ InBuild /\ InRight.kind = "Values" /\ Len(InRight.val) = 0) =>
    /\ query = Append(WherePrefix, IF InOf.cmp = "In" THEN "1=0" ELSE "1=1")
    /\ \A i \in DOMAIN query : query[i] \notin {" IN ", " NOT IN "}

\* the build at hand compares a one-column Row with a one-row Values
SingleColumnSingleRow ==
  /\ pc = "returned" /\ InBuild
  /\ InLeft.kind = "Row" /\ Len(InLeft.val) = 1
  /\ InRight.kind = "Values" /\ Len(InRight.val) = 1

\* the text of <column> <operator> <the single row>
FlattenedWith(operator) ==
  AfterWhere(<<Call("visit_expression", InLeft.val[1]),
               W(operator),
               Call("visit_row", InRight.val[1])>>)

\* C8 as stated: a one-column Row In / NotIn a one-row Values is rendered as
\* col = (...), resp. col <> (...).
C8_FlattenedToEquality ==
  SingleColumnSingleRow =>
    query = FlattenedWith(IF InOf.cmp = "In" THEN " = " ELSE " <> ").query

\* C8 amended: a one-column Row In / NotIn a one-row Values is rendered as
\* col IN (...), resp. col NOT IN (...): the column without the parentheses of
\* its row, the operator IN / NOT IN, then the single row; its literals are
\* the parameters.
C8_FlattenedToIn ==
  SingleColumnSingleRow =>
    LET flat == FlattenedWith(IF InOf.cmp = "In" THEN " IN " ELSE " NOT IN ")
    IN query = flat.query /\ parameters = flat.parameters

\* C8 witness: ("a") NOT IN over one row of two literals was built.
C8_Witness ==
  /\ SingleColumnSingleRow
  /\ InOf.cmp = "NotIn"
  /\ InLeft.val[1].kind = "Column"
  /\ Len(InRight.val[1]) = 2

\* C9: an In whose right operand is a Parameterized literal is rendered as
\* <left> = $n, a NotIn as <left> <> $n; the literal is the one parameter bound
\* after those of the left operand, and no IN is written.
C9_ScalarToEquality ==
  (pc = "returned" /\ InBuild /\ InRight.kind = "Parameterized") =>
    LET left == AfterWhere(<<Call("visit_expression", InLeft)>>)
        n == Len(left.parameters) + 1
    IN /\ query = left.query
                  \o <<IF InOf.cmp = "In" THEN " = " ELSE " <> ", "$", ToString(n)>>
       /\ parameters = Append(left.parameters, InRight.val)
       /\ \A i \in DOMAIN query : query[i] \notin {" IN ", " NOT IN "}

\* C9 witness: ("a" + $1) NOT IN <literal> was built, the literal being $2.
C9_Witness ==
  /\ pc = "returned" /\ InBuild
  /\ InOf.cmp = "NotIn"
  /\ InLeft.kind = "Op"
  /\ InRight.kind = "Parameterized"
  /\ Len(parameters) = Len(AfterWhere(<<Call("visit_expression", InLeft)>>).parameters) + 1

(***************************************************************************)
(* Chains a.and(b).and(c) ... and a.or(b).or(c) ...: log holds the         *)
(* operands in call order, the first entry being the receiver a.           *)
(***************************************************************************)
ChainOf(op) ==
  /\ subject.what = "ConditionTree"
  /\ Len(log) >= 2
  /\ log[1].op = "start"
  /\ \A i \in 1..Len(log) : log[i].e.kind = "Compare"
  /\ \A i \in 2..Len(log) : log[i].op = op

Operands == [i \in 1..Len(log) |-> log[i].e]

Count(text, token) == Cardinality({i \in DOMAIN text : text[i] = token})

\* the text and parameters of ( <operand> <sep> <operand> ... ) behind WHERE
FlatGroup(sep) ==
  AfterWhere(<<W("(")>>
             \o Separated([i \in 1..Len(log) |-> <<Call("visit_expression", log[i].e)>>], sep)
             \o <<W(")")>>)

\* C10: a chain of and calls yields one And holding the operands in call
\* order (a chain of or calls one Or), and it is rendered as one parenthesized
\* group with one separator between consecutive operands and no parentheses
\* inside.
C10_ChainIsFlat ==
  /\ ChainOf("and") => subject.it = ConditionTree("And", Operands)
  /\ ChainOf("or") => subject.it = ConditionTree("Or", Operands)
  /\ (pc = "returned" /\ ChainOf("and")) =>
       /\ query = FlatGroup(" AND ").query
       /\ parameters = FlatGroup(" AND ").parameters
       /\ Count(query, "(") = 1 /\ Count(query, ")") = 1
       /\ Count(query, " AND ") = Len(log) - 1
  /\ (pc = "returned" /\ ChainOf("or")) =>
       /\ query = FlatGroup(" OR ").query
       /\ parameters = FlatGroup(" OR ").parameters
       /\ Count(query, "(") = 1 /\ Count(query, ")") = 1
       /\ Count(query, " OR ") = Len(log) - 1

\* C10 witness: a.and(b).and(c) was built, and was called on an And.
C10_Witness ==
  /\ pc = "returned"
  /\ ChainOf("and")
  /\ Len(log) >= 3
  /\ Len(parameters) >= 2

(***************************************************************************)
(* and / or on a tree of another shape.                                    *)
(***************************************************************************)
\* the step is a call of tree.and(other) (op = "and") or tree.or(other)
CalledOn(op) ==
  /\ pc = "construct"
  /\ subject.what = "ConditionTree"
  /\ Len(log') = Len(log) + 1
  /\ log'[Len(log')].op = op

\* the expression e stands for the tree: it holds the tree, or, for a Single,
\* it is the expression the Single wraps
Denotes(e, tree) ==
  IF tree.ct = "Single" THEN e = tree.cond
  ELSE e.kind = "ConditionTree" /\ e.val.ct = tree.ct /\ e = ConditionTreeExpr(tree)

\* the result is a new list of two: the receiver, then the operand as it is
WrapsInTwo(ct) ==
  /\ subject'.it.ct = ct
  /\ Len(subject'.it.cond) = 2
  /\ Denotes(subject'.it.cond[1], subject.it)
  /\ subject'.it.cond[2] = log'[Len(log')].e

\* C11: and called on a tree that is not an And (or called on a tree that is
\* not an Or) returns a new And (Or) of exactly two elements, the original
\* condition first and the operand second, the operand kept as one element
\* even when it is itself an And or an Or.
C11_OtherShapesWrap ==
  [][ /\ (CalledOn("and") /\ subject.it.ct # "And") => WrapsInTwo("And")
      /\ (CalledOn("or") /\ subject.it.ct # "Or") => WrapsInTwo("Or") ]_vars

\* C11 witness: or was called on a Not, NoCondition, NegativeCondition, Exists
\* or Single tree with an operand that is itself an Or, and the result holds
\* that operand whole as its second element.
C11_Witness ==
  /\ Len(log) = 2
  /\ log[1].op = "tree"
  /\ log[2].op = "or"
  /\ log[2].e.kind = "ConditionTree"
  /\ log[2].e.val.ct = "Or"
  /\ subject.it.ct = "Or"
  /\ Len(subject.it.cond) = 2
  /\ subject.it.cond[2] = log[2].e

(***************************************************************************)
(* Parentheses.  The depth of a text after its j-th token counts the       *)
(* tokens that open a parenthesis less those that close one.               *)
(***************************************************************************)
ParenOpen == {"(", " (", "( NOT ", "encode(", "json_agg(", "to_jsonb("}
ParenClose == {")", " )", ".*)"}

Depth(text, j) ==
  Cardinality({i \in 1..j : text[i] \in ParenOpen})
  - Cardinality({i \in 1..j : text[i] \in ParenClose})

\* the text opens with `(`, and that parenthesis is closed by the `)` the text
\* ends with
Enclosed(text) ==
  /\ Len(text) >= 2
  /\ text[1] = "("
  /\ text[Len(text)] = ")"
  /\ Depth(text, Len(text)) = 0
  /\ \A j \in 1..(Len(text) - 1) : Depth(text, j) > 0

\* the text one pending call writes
TextOf(item) == Run(<<item>>, Accumulators(<<>>, <<>>)).query

\* visits of an And, Or, Not or Exists, of an Op, of a Select as expression
Parenthesized(item) ==
  \/ item.call = "visit_conditions" /\ item.arg.ct \in {"And", "Or", "Not", "Exists"}
  \/ item.call = "visit_operation"
  \/ item.call = "visit_expression" /\ item.arg.kind = "Selection"

\* the visit of the node without its alias
ValuePart(item) ==
  IF item.call = "visit_expression"
    THEN Call("visit_expression", [item.arg EXCEPT !.alias = None])
    ELSE item

\* C12: at every position of the walk, the text of an And, Or, Not, Op, Exists
\* or Select used as an expression is enclosed in a pair of parentheses of its
\* own, and the text of a Single is the text of the expression it wraps, with
\* nothing around it.
C12_Parenthesization ==
  (pc = "walking" /\ Len(stack) > 0) =>
    LET h == Head(stack)
    IN /\ Parenthesized(h) => Enclosed(TextOf(ValuePart(h)))
       /\ (h.call = "visit_conditions" /\ h.arg.ct = "Single") =>
            TextOf(h) = TextOf(Call("visit_expression", h.arg.cond))

\* C12 witness: the walk is about to visit an Op that is nested in another
\* parenthesized node, whose `(` is already written.
C12_Witness ==
  /\ pc = "walking" /\ Len(stack) > 0
  /\ Head(stack).call = "visit_operation"
  /\ Cardinality({i \in DOMAIN query : query[i] = "("}) >= 1
  /\ Enclosed(TextOf(Head(stack)))

(***************************************************************************)
(* Aliases.                                                                *)
(***************************************************************************)
\* the alias of the node a pending visit is about to render
AliasOf(item) ==
  CASE item.call \in {"visit_expression", "visit_function", "visit_column"} -> item.arg.alias
    [] item.call = "visit_table" -> item.arg.table.alias
    [] OTHER -> None

\* the same visit of the node with its alias taken away: its value part
WithoutAlias(item) ==
  IF item.call = "visit_table"
    THEN Call("visit_table", [item.arg EXCEPT !.table.alias = None])
    ELSE Call(item.call, [item.arg EXCEPT !.alias = None])

AsAlias(alias) == <<" AS ", C_BACKTICK_OPEN, alias, C_BACKTICK_CLOSE>>

ValueThenAlias(item) ==
  TextOf(item) = TextOf(WithoutAlias(item)) \o AsAlias(AliasOf(item)[1])

RECURSIVE Sql(_)
\* the String the written tokens make up
Sql(text) == IF Len(text) = 0 THEN "" ELSE Head(text) \o Sql(Tail(text))

\* Postgres::build(q) has returned
Built(q) == pc = "returned" /\ current # None /\ current[1].query = q

\* Select::from_table("users") followed by value(1)
FromUsersValueOne ==
  QuerySelect(Select_value(Select_from_table(Table("users")),
                           Parameterized(NumberValue(1))))

\* C14 as stated: Select::from_table("users") followed by value(1) renders to
\* the text `SELECT $1` with parameters [1], and no AS is written.
C14_SelectValueOnly ==
  Built(FromUsersValueOne) =>
    /\ Sql(query) = "SELECT $1"
    /\ parameters = <<NumberValue(1)>>
    /\ Count(query, " AS ") = 0

\* C14, amended: it renders to `SELECT $1 FROM "users"` with parameters [1],
\* and no AS is written.
C14_SelectValueFromUsers ==
  Built(FromUsersValueOne) =>
    /\ Sql(query) = "SELECT $1 FROM \"users\""
    /\ parameters = <<NumberValue(1)>>
    /\ Count(query, " AS ") = 0

\* C14 witness: the build of that Select has returned, with one parameter.
C14_Witness ==
  /\ Built(FromUsersValueOne)
  /\ Len(parameters) = 1
  /\ Len(query) > 0

(***************************************************************************)
(* The default projection.                                                 *)
(***************************************************************************)
\* the positions of a token outside every parenthesis
TopLevel(text, token) == {i \in DOMAIN text : text[i] = token /\ Depth(text, i) = 0}

Least(S) == CHOOSE i \in S : \A j \in S : i <= j
Greatest(S) == CHOOSE i \in S : \A j \in S : i >= j

\* the tokens a Select writes between SELECT [DISTINCT] and FROM
ProjectionOf(select) ==
  LET text == TextOf(Call("visit_select", select))
      from == Least(TopLevel(text, " FROM "))
      sel == Greatest({i \in TopLevel(text, "SELECT ") : i < from})
  IN SubSeq(text, sel + 1 + (IF select.distinct THEN 1 ELSE 0), from - 1)

Quoted(name) == <<C_BACKTICK_OPEN, name, C_BACKTICK_CLOSE>>

\* the table without its joins and without its alias
BareTable(table) ==
  IF table.typ = "JoinedTable"
    THEN [table EXCEPT !.typ = "Table", !.source = table.source.name, !.alias = None]
    ELSE [table EXCEPT !.alias = None]

\* `<alias>.*`, or else `<table>.*`
TableStar(table) ==
  IF table.alias # None
    THEN Quoted(table.alias[1]) \o <<".*">>
    ELSE TextOf(Call("visit_table", [table |-> BareTable(table), include_alias |-> FALSE]))
         \o <<".*">>

\* the same, with a bare `*` for a subquery or a value-set without alias
TableStarOrStar(table) ==
  IF table.alias = None /\ table.typ \in {"Query", "Values"}
    THEN <<"*">>
    ELSE TableStar(table)

\* `"db"."name"` or `"name"`
QualifiedName(table) ==
  LET name == IF table.typ = "JoinedTable" THEN table.source.name ELSE table.source
  IN IF table.database # None
       THEN Quoted(table.database[1]) \o <<".">> \o Quoted(name)
       ELSE Quoted(name)

\* the texts, with `, ` between one and the next
CommaSeparated(texts) ==
  Concat([i \in 1..Len(texts) |-> IF i = 1 THEN texts[i] ELSE <<", ">> \o texts[i]])

DefaultProjected(item) ==
  /\ item.call = "visit_select"
  /\ Len(item.arg.tables) > 0
  /\ Len(item.arg.columns) = 0

\* C15 as stated: a Select with source tables and no columns projects, in
\* FROM order and comma-separated, `<alias>.*` for a table with an alias and
\* `<table>.*` for every other table, the table being the base name of a
\* JoinedTable, qualified by the database when one is set.
C15_TableStarForEveryTable ==
  (pc = "walking" /\ Len(stack) > 0 /\ DefaultProjected(Head(stack))) =>
    LET select == Head(stack).arg
    IN ProjectionOf(select)
         = CommaSeparated([i \in 1..Len(select.tables) |-> TableStar(select.tables[i])])

\* C15, amended: the same, except that a subquery or value-set table without
\* alias is projected as a bare `*`; the projection of a named table is its
\* quoted, database-qualified base name, and no join and no parameter is in it.
C15_DefaultProjection ==
  (pc = "walking" /\ Len(stack) > 0 /\ DefaultProjected(Head(stack))) =>
    LET select == Head(stack).arg
        projection == ProjectionOf(select)
    IN /\ projection
            = CommaSeparated([i \in 1..Len(select.tables) |->
                                TableStarOrStar(select.tables[i])])
       /\ \A i \in 1..Len(select.tables) :
            (select.tables[i].alias = None
               /\ select.tables[i].typ \in {"Table", "JoinedTable"}) =>
              TableStar(select.tables[i]) = QualifiedName(select.tables[i]) \o <<".*">>
       /\ Count(projection, "$") = 0
       /\ Count(projection, " LEFT JOIN ") = 0

\* C15 witness: a Select of two tables, the first one a JoinedTable without
\* alias whose join binds a parameter, is about to be rendered.
C15_Witness ==
  /\ pc = "walking" /\ Len(stack) > 0
  /\ DefaultProjected(Head(stack))
  /\ Len(Head(stack).arg.tables) = 2
  /\ Head(stack).arg.tables[1].typ = "JoinedTable"
  /\ Head(stack).arg.tables[1].alias = None
  /\ Count(TextOf(Head(stack)), " LEFT JOIN ") = 1
  /\ Count(TextOf(Head(stack)), "$") >= 1

(***************************************************************************)
(* The FROM clause.                                                        *)
(***************************************************************************)
\* a text with the number of every placeholder blanked
Shape(text) == [i \in DOMAIN text |-> IF i > 1 /\ text[i - 1] = "$" THEN "n" ELSE text[i]]

JoinToken(join) ==
  CASE join = "Inner" -> " INNER JOIN "
    [] join = "Left" -> " LEFT JOIN "
    [] join = "Right" -> " RIGHT JOIN "
    [] join = "Full" -> " FULL JOIN "

\* the joins one after the other, in the order of the list
JoinsText(joins) ==
  Concat([i \in 1..Len(joins) |->
            <<JoinToken(joins[i].join)>>
            \o TextOf(Call("visit_join_data", joins[i].data))])

\* a source table: the name of a JoinedTable with its joins right behind it
SourceText(table) ==
  IF table.typ = "JoinedTable"
    THEN QualifiedName(table)
         \o JoinsText(table.source.joins)
         \o (IF table.alias # None THEN AsAlias(table.alias[1]) ELSE <<>>)
    ELSE TextOf(Call("visit_table", [table |-> table, include_alias |-> TRUE]))

\* what a Select writes behind its FROM
BehindFrom(select) ==
  LET text == TextOf(Call("visit_select", select))
  IN SubSeq(text, Least(TopLevel(text, " FROM ")) + 1, Len(text))

\* the table list, then the joins of the Select
FromClause(select) ==
  CommaSeparated([i \in 1..Len(select.tables) |-> SourceText(select.tables[i])])
  \o JoinsText(select.joins)

\* C16: behind FROM come the source tables, comma-separated, each JoinedTable
\* with its attached joins right behind its name and in attachment order,
\* then the joins of the Select in insertion order, then WHERE.
C16_JoinPlacement ==
  (pc = "walking" /\ Len(stack) > 0 /\ Head(stack).call = "visit_select"
     /\ Len(Head(stack).arg.tables) > 0) =>
    LET select == Head(stack).arg
        behind == Shape(BehindFrom(select))
        clause == Shape(FromClause(select))
    IN /\ IsPrefix(clause, behind)
       /\ select.conditions # None =>
            /\ Len(behind) > Len(clause)
            /\ behind[Len(clause) + 1] = " WHERE "

\* C16 witness: a Select with a JoinedTable of two joins, a second table, two
\* joins of its own and a WHERE is about to be rendered.
C16_Witness ==
  /\ pc = "walking" /\ Len(stack) > 0
  /\ Head(stack).call = "visit_select"
  /\ Len(Head(stack).arg.tables) = 2
  /\ Head(stack).arg.tables[1].typ = "JoinedTable"
  /\ Len(Head(stack).arg.tables[1].source.joins) = 2
  /\ Len(Head(stack).arg.joins) = 2
  /\ Head(stack).arg.conditions # None
  /\ Sql(Shape(TextOf(Head(stack))))
       = "SELECT \"users\".*, \"toto\".* FROM \"users\" LEFT JOIN \"posts\" AS \"p\" ON \"p\".\"userId\" = $n INNER JOIN \"t\" ON 1=1, \"toto\" RIGHT JOIN \"r\" ON \"a\" = $n FULL JOIN \"f\" ON 1=1 WHERE \"a\" = $n"

(***************************************************************************)
(* Joins attached to a table.                                              *)
(***************************************************************************)
\* the step is a call of left_join, inner_join, right_join or full_join
JoinCalled ==
  /\ pc = "construct"
  /\ subject.what = "Table"
  /\ (pc' = "panicked" \/ Len(log') = Len(log) + 1)

\* C17: a join method panics exactly when the table it is called on is of typ
\* Query or Values; on a Table or a JoinedTable it returns a table, a
\* JoinedTable holding every join attached so far, however many came before.
C17_JoinPanics ==
  [][ JoinCalled =>
        /\ (pc' = "panicked") <=> (subject.it.typ \in {"Query", "Values"})
        /\ (pc' # "panicked") =>
             /\ subject'.what = "Table"
             /\ subject'.it.typ = "JoinedTable"
             /\ Len(subject'.it.source.joins) = Len(log') - 1
             /\ subject'.it.source.joins[Len(log') - 1].data = log'[Len(log')].e ]_vars

\* C17 witness: a join method was called on a table of typ Query or Values
\* and the program has aborted.
C17_Witness ==
  /\ pc = "panicked"
  /\ subject.what = "Table"
  /\ subject.it.typ \in {"Query", "Values"}

(***************************************************************************)
(* Totality of the walk.                                                   *)
(***************************************************************************)
\* the number of steps the walk has left for the pending items st
RECURSIVE Steps(_)
Steps(st) ==
  IF Len(st) = 0 THEN 0
  ELSE IF Len(st) = 1 THEN
    (IF st[1].call \in {"write", "visit_parameterized", "panic"}
       THEN 1 ELSE 1 + Steps(Body(st[1])))
  ELSE
    LET half == Len(st) \div 2
    IN Steps(SubSeq(st, 1, half)) + Steps(SubSeq(st, half + 1, Len(st)))

\* the call about to be entered is visit_json_extract with a path in string
\* notation
EntersStringPath ==
  /\ Len(stack) > 0
  /\ Head(stack).call = "visit_json_extract"
  /\ Head(stack).arg.path.notation = "String"

UpsertBuilt ==
  /\ pc = "returned"
  /\ current # None
  /\ current[1].query.q = "Insert"
  /\ current[1].query.stmt.on_conflict # None
  /\ current[1].query.stmt.on_conflict[1].oc = "Update"

ParametersOf(items) == Run(items, Accumulators(<<>>, <<>>)).parameters

\* the INSERT up to its values
InsertValues(insert) ==
  <<Call("visit_insert", [insert EXCEPT !.on_conflict = None, !.returning = None])>>

\* `<column> = <value>` for every assignment, separated by `, `
Assignments(update) ==
  Separated([i \in 1..Len(update.columns) |->
               <<Call("visit_column", update.columns[i]), W(" = "),
                 Call("visit_expression", update.values[i])>>], ", ")

WhereOf(update) ==
  IF update.conditions = None THEN <<>>
  ELSE <<W(" WHERE "), Call("visit_conditions", update.conditions[1])>>

\* the statement laid out clause by clause
UpsertLayout(insert) ==
  LET update == insert.on_conflict[1].update
      targets == insert.on_conflict[1].constraints
  IN InsertValues(insert)
     \o <<W(" ON CONFLICT (")>>
     \o Separated([i \in 1..Len(targets) |->
                     <<W(C_BACKTICK_OPEN), W(targets[i].name), W(C_BACKTICK_CLOSE)>>], ",")
     \o <<W(") DO UPDATE SET ")>>
     \o Assignments(update)
     \o WhereOf(update)
     \o (IF insert.returning = None \/ insert.returning[1] = <<>> THEN <<>>
         ELSE <<W(" RETURNING "),
                Call("visit_columns",
                     [i \in 1..Len(insert.returning[1]) |->
                        ColumnExpr(insert.returning[1][i])])>>)

\* C19: an Insert with OnConflict::Update(update, targets) renders, behind its
\* values, ` ON CONFLICT (<targets>) DO UPDATE SET <assignments>`, then
\* ` WHERE <conditions>` when update has conditions, then RETURNING; the table
\* of update is not written; the parameters are those of the INSERT values,
\* then of the SET values, then of the WHERE, and are numbered in that order.
C19_UpsertLayout ==
  UpsertBuilt =>
    LET insert == current[1].query.stmt
        update == insert.on_conflict[1].update
        layout == Run(UpsertLayout(insert), Accumulators(<<>>, <<>>))
    IN /\ Sql(query) = Sql(layout.query)
       /\ parameters = ParametersOf(InsertValues(insert))
                          \o ParametersOf(Assignments(update))
                          \o ParametersOf(WhereOf(update))

\* C19 witness: an upsert whose Update is on another table, with two
\* assignments, a WHERE and a RETURNING of its own, has been built.
C19_Witness ==
  /\ UpsertBuilt
  /\ Sql(query) = "INSERT INTO \"users\" (\"a\",\"b\") VALUES ($1,$2)"
                     \o " ON CONFLICT (\"a\",\"b\") DO UPDATE SET \"a\" = $3, \"users\".\"b\" = $4"
                     \o " WHERE \"a\" = $5 RETURNING \"a\""
  /\ parameters = <<NumberValue(1), NumberValue(2), NumberValue(3),
                    NumberValue(4), NumberValue(5)>>

(***************************************************************************)
(* Quoting of identifiers.                                                 *)
(***************************************************************************)
\* the token holds a quote character that is not escaped; the escaped
\* spelling of QuoteInside would be we""ird
HoldsBareQuote(token) == token = QuoteInside

\* the number of quote characters written as delimiters before position j
QuotesBefore(text, j) ==
  Cardinality({i \in 1..(j - 1) : text[i] \in {C_BACKTICK_OPEN, C_BACKTICK_CLOSE}})

\* position j lies between an opening and a closing quote
InsideQuotes(text, j) ==
  /\ text[j] \notin {C_BACKTICK_OPEN, C_BACKTICK_CLOSE}
  /\ QuotesBefore(text, j) % 2 = 1

\* C20: in the text that build returns, every identifier stands between the
\* opening and the closing quote character, and what stands between them
\* holds no unescaped quote character, also for an identifier that itself
\* holds the quote character.
C20_IdentifiersQuoted ==
  pc = "returned" =>
    \A j \in 1..Len(query) :
      /\ query[j] = QuoteInside =>
           /\ 1 < j /\ j < Len(query)
           /\ query[j - 1] = C_BACKTICK_OPEN
           /\ query[j + 1] = C_BACKTICK_CLOSE
      /\ InsideQuotes(query, j) => ~HoldsBareQuote(query[j])

\* every identifier holding the quote character is written between quotes,
\* as it is
C20_WrittenVerbatim ==
  pc = "returned" =>
    \A j \in 1..Len(query) :
      query[j] = QuoteInside =>
        /\ 1 < j /\ j < Len(query)
        /\ query[j - 1] = C_BACKTICK_OPEN
        /\ query[j + 1] = C_BACKTICK_CLOSE

\* the text returned for a database, table, alias, column and CTE name that
\* hold the quote character
C20_QuoteInsideBuilt ==
  /\ pc = "returned"
  /\ Sql(query) = "WITH \"we\"ird\" AS (SELECT \"id\" FROM \"posts\" WHERE \"uniq\" = $1) "
                     \o "SELECT \"we\"ird\" AS \"we\"ird\" "
                     \o "FROM \"we\"ird\".\"we\"ird\" AS \"we\"ird\""

(***************************************************************************)
(* LIMIT and OFFSET.                                                       *)
(***************************************************************************)
\* visit_select is about to be entered
EntersSelect ==
  /\ pc = "walking"
  /\ Len(stack) > 0
  /\ Head(stack).call = "visit_select"

\* the accumulators when the visit of item returns
AfterVisit(item) == Run(<<item>>, Accumulators(query, parameters))

\* ` LIMIT $i OFFSET $i+1`, ` LIMIT $i`, ` OFFSET $i` or nothing, where the
\* last parameter before them is number n
LimitOffsetText(select, n) ==
  (IF select.limit # None THEN <<" LIMIT ", "$", ToString(n + 1)>> ELSE <<>>)
  \o (IF select.offset # None
        THEN <<" OFFSET ", "$", ToString(n + (IF select.limit # None THEN 2 ELSE 1))>>
        ELSE <<>>)

LimitOffsetValues(select) ==
  (IF select.limit # None THEN <<NumberValue(select.limit[1])>> ELSE <<>>)
  \o (IF select.offset # None THEN <<NumberValue(select.offset[1])>> ELSE <<>>)

\* the visit of select ends with its LIMIT and OFFSET as placeholders, behind
\* everything else of the Select
EndsWithLimitOffset(select) ==
  LET rest == AfterVisit(Call("visit_select",
                              [select EXCEPT !.limit = None, !.offset = None]))
      all == AfterVisit(Call("visit_select", select))
  IN /\ all.query = rest.query \o LimitOffsetText(select, Len(rest.parameters))
     /\ all.parameters = rest.parameters \o LimitOffsetValues(select)
     /\ select.limit = None /\ select.offset = None => all = rest

\* C21: the LIMIT and the OFFSET of a Select are written as placeholders,
\* ` LIMIT $i OFFSET $i+1`, ` LIMIT $i` or ` OFFSET $i`, as the last clause of
\* the Select, their values behind all other parameters of the Select; with
\* neither set nothing is written and no parameter is added.
C21_LimitOffset == EntersSelect => EndsWithLimitOffset(Head(stack).arg)

\* the same for a Select that has a source table
C21_LimitOffsetWithTable ==
  EntersSelect /\ Len(Head(stack).arg.tables) > 0 => EndsWithLimitOffset(Head(stack).arg)

\* a Select with a source table, a limit and an offset is about to be
\* visited behind earlier parameters
C21_LimitOffsetVisited ==
  /\ EntersSelect
  /\ Len(Head(stack).arg.tables) > 0
  /\ Head(stack).arg.limit # None /\ Head(stack).arg.offset # None
  /\ Len(AfterVisit(Head(stack)).parameters) > 2

(***************************************************************************)
(* The clauses of a Select without a source table.                         *)
(***************************************************************************)
\* the Select without its joins, WHERE, GROUP BY, HAVING, ORDER BY, LIMIT
\* and OFFSET
WithoutClauses(select) ==
  [select EXCEPT !.joins = <<>>, !.conditions = None, !.grouping = <<>>,
                 !.having = None, !.ordering = <<>>, !.limit = None, !.offset = None]

\* the clauses set on the Select, one after the other
ClausesOf(select) ==
  (IF Len(select.joins) # 0 THEN <<Call("visit_joins", select.joins)>> ELSE <<>>)
  \o (IF select.conditions # None
        THEN <<W(" WHERE "), Call("visit_conditions", select.conditions[1])>> ELSE <<>>)
  \o (IF Len(select.grouping) # 0
        THEN <<W(" GROUP BY "), Call("visit_grouping", select.grouping)>> ELSE <<>>)
  \o (IF select.having # None
        THEN <<W(" HAVING "), Call("visit_conditions", select.having[1])>> ELSE <<>>)
  \o (IF Len(select.ordering) # 0
        THEN <<W(" ORDER BY "), Call("visit_ordering", select.ordering)>> ELSE <<>>)
  \o <<Call("visit_limit_and_offset", [limit |-> select.limit, offset |-> select.offset])>>

ClausesRendered(select) ==
  AfterVisit(Call("visit_select", select))
    = Run(ClausesOf(select), AfterVisit(Call("visit_select", WithoutClauses(select))))

\* C28: every clause set on a Select (joins, WHERE, GROUP BY, HAVING, ORDER
\* BY, LIMIT / OFFSET) is rendered with its parameters, whether or not the
\* Select has a source table.
C28_ClausesRendered == EntersSelect => ClausesRendered(Head(stack).arg)

\* the same for a Select that has a source table
C28_ClausesRenderedWithTable ==
  EntersSelect /\ Len(Head(stack).arg.tables) > 0 => ClausesRendered(Head(stack).arg)

\* build has returned, for a Select without a source table that has every
\* clause set, a text without any of them
C28_ClausesDropped ==
  /\ Built(QuerySelect(EveryClause(Select_value(SelectDefault, P(9)))))
  /\ Sql(query) = "SELECT $1"
  /\ parameters = <<NumberValue(9)>>

(***************************************************************************)
(* INSERT of a single row.                                                 *)
(***************************************************************************)
\* Postgres::build has returned from an Insert into a table whose values are
\* a Row, without conflict clause and RETURNING
RowInsertBuilt ==
  /\ pc = "returned"
  /\ current # None
  /\ current[1].query.q = "Insert"
  /\ current[1].query.stmt.table # None
  /\ current[1].query.stmt.values.kind = "Row"
  /\ current[1].query.stmt.on_conflict = None
  /\ current[1].query.stmt.returning = None

\* the texts joined by `,`
Joined(texts) ==
  Concat([i \in 1..Len(texts) |-> IF i = 1 THEN texts[i] ELSE <<",">> \o texts[i]])

\* the literal values of the row, in its order
RECURSIVE LiteralsOf(_)
LiteralsOf(row) ==
  IF Len(row) = 0 THEN <<>>
  ELSE (IF Head(row).kind = "Parameterized" THEN <<Head(row).val>> ELSE <<>>)
       \o LiteralsOf(Tail(row))

\* the number of literal values among the first i values of the row
LiteralsUpTo(row, i) == Len(LiteralsOf(SubSeq(row, 1, i)))

\* the i-th value of the row as it stands in the text
ValueText(row, i) ==
  CASE row[i].kind = "Parameterized" -> <<"$", ToString(LiteralsUpTo(row, i))>>
    [] row[i].kind = "Default" -> <<"DEFAULT">>

\* C22: an Insert of an empty Row renders `INSERT INTO <table> DEFAULT VALUES`
\* without column list and without parameters; an Insert of a non-empty Row
\* renders ` (<columns>) VALUES (<values>)`, columns and values in the order
\* of the value(..) calls, with one parameter per literal value.
C22_SingleRowInsert ==
  /\ RowInsertBuilt =>
       LET insert == current[1].query.stmt
           row == insert.values.val
           into == "INSERT INTO "
                     \o Sql(TextOf(Call("visit_table", [table |-> insert.table[1],
                                                        include_alias |-> TRUE])))
       IN IF Len(row) = 0
            THEN /\ Sql(query) = into \o " DEFAULT VALUES"
                 /\ parameters = <<>>
            ELSE /\ Sql(query) =
                      into \o " ("
                      \o Sql(Joined([i \in 1..Len(insert.columns) |->
                                       Quoted(insert.columns[i].name)]))
                      \o ") VALUES ("
                      \o Sql(Joined([i \in 1..Len(row) |-> ValueText(row, i)]))
                      \o ")"
                 /\ parameters = LiteralsOf(row)
  /\ Built(QueryInsert(InsertFromSingleRow(ThreeValueCalls))) =>
       /\ Sql(query) = "INSERT INTO \"users\" (\"b\",\"a\",\"c\") VALUES ($1,DEFAULT,$2)"
       /\ parameters = <<NumberValue(7), NumberValue(5)>>

\* C22 witness: the Insert made by three value(..) calls has been built.
C22_Witness ==
  /\ RowInsertBuilt
  /\ Built(QueryInsert(InsertFromSingleRow(ThreeValueCalls)))
  /\ Len(parameters) = 2

\* an Insert without values into a table with database and alias has been
\* built
C22_DefaultValuesBuilt ==
  /\ RowInsertBuilt
  /\ Sql(query) = "INSERT INTO \"db\".\"users\" AS \"u\" DEFAULT VALUES"
  /\ parameters = <<>>

(***************************************************************************)
(* LIKE and NOT LIKE.                                                      *)
(***************************************************************************)
\* visit_compare is about to be entered on a Like or a NotLike
EntersLike ==
  /\ pc = "walking"
  /\ Len(stack) > 0
  /\ Head(stack).call = "visit_compare"
  /\ Head(stack).arg.cmp \in {"Like", "NotLike"}

LikeKeyword(cmp) == IF cmp = "Like" THEN " LIKE " ELSE " NOT LIKE "

\* `::text` behind a left operand that is a column, nothing behind any other
CastOf(left) == IF left.kind = "Column" THEN <<"::text">> ELSE <<>>

\* C23 as stated: the left operand, `::text` when it is a column and only
\* then, the keyword, and the pattern always as one parameter.
C23_PatternAlwaysParameter ==
  EntersLike =>
    LET left == Head(stack).arg.args[1]
        l == AfterVisit(Call("visit_expression", left))
        all == AfterVisit(Head(stack))
    IN /\ all.query = l.query \o CastOf(left)
                        \o <<LikeKeyword(Head(stack).arg.cmp), "$",
                             ToString(Len(l.parameters) + 1)>>
       /\ Len(all.parameters) = Len(l.parameters) + 1

\* C23: a Like or NotLike renders its left operand, `::text` when the left
\* operand is a column and only then, the keyword, and the pattern as the
\* expression it is: as one parameter when the pattern is a literal value.
C23_LikeCast ==
  EntersLike =>
    LET left == Head(stack).arg.args[1]
        right == Head(stack).arg.args[2]
        l == AfterVisit(Call("visit_expression", left))
        all == AfterVisit(Head(stack))
        n == Len(l.query) + Len(CastOf(left)) + 1
    IN /\ IsPrefix(l.query \o CastOf(left) \o <<LikeKeyword(Head(stack).arg.cmp)>>,
                   all.query)
       /\ Shape(SubSeq(all.query, n + 1, Len(all.query)))
            = Shape(TextOf(Call("visit_expression", right)))
       /\ right.kind = "Parameterized" =>
            /\ all.query = l.query \o CastOf(left)
                             \o <<LikeKeyword(Head(stack).arg.cmp), "$",
                                  ToString(Len(l.parameters) + 1)>>
            /\ all.parameters = Append(l.parameters, right.val)

\* C23 witness: a LIKE between a column and a literal pattern has been built.
C23_Witness ==
  /\ pc = "returned"
  /\ Sql(query) = "SELECT \"users\".* FROM \"users\" WHERE \"a\"::text LIKE $1"
  /\ parameters = <<StringValue("%s%")>>

\* a LIKE between two columns has been built: no parameter stands for the
\* pattern
C23_ColumnPatternBuilt ==
  /\ pc = "returned"
  /\ Sql(query) = "SELECT \"users\".* FROM \"users\" WHERE \"a\"::text LIKE \"b\""
  /\ parameters = <<>>

(***************************************************************************)
(* so_that, and_where, or_where.                                           *)
(***************************************************************************)
\* the step is a call of the method op on a Select
WhereCalled(op) ==
  /\ pc = "construct"
  /\ subject.what = "Select"
  /\ Len(log') = Len(log) + 1
  /\ log'[Len(log')].op = op

\* the accumulators after the visit of the items, from empty ones
Rendered(items) == Run(items, Accumulators(<<>>, <<>>))

\* the members of an And (resp. Or) group as the group lists them, any
\* other condition as one member
MembersOf(tree, ct) ==
  IF tree.ct = ct
    THEN [i \in 1..Len(tree.cond) |-> <<Call("visit_expression", tree.cond[i])>>]
    ELSE <<(<<Call("visit_expression", ConditionTreeExpr(tree))>>)>>

\* new is previous and c under the keyword, previous first
Combined(new, previous, c, ct, keyword) ==
  Rendered(<<Call("visit_conditions", new)>>)
    = Rendered(surround_with("(", ")",
                 Separated(Append(MembersOf(previous, ct),
                                  <<Call("visit_expression", c)>>), keyword)))

\* the log is so_that followed by and_where calls, one at least
SoThatThenAndWhere(l) ==
  /\ Len(l) > 1
  /\ l[1].op = "so_that"
  /\ \A i \in 2..Len(l) : l[i].op = "and_where"

\* the WHERE condition is one AND group of the conditions of the log
FlatAndGroup(select, l) ==
  Rendered(<<Call("visit_conditions", select.conditions[1])>>)
    = Rendered(surround_with("(", ")",
                 Separated([i \in 1..Len(l) |-> <<Call("visit_expression", l[i].e)>>],
                           " AND ")))

EntersOrdering ==
  /\ pc = "walking"
  /\ Len(stack) > 0
  /\ Head(stack).call = "visit_ordering"

DirectionKeywords(dir) ==
  CASE dir = "Asc" -> "ASC"
    [] dir = "Desc" -> "DESC"
    [] dir = "AscNullsFirst" -> "ASC NULLS FIRST"
    [] dir = "AscNullsLast" -> "ASC NULLS LAST"
    [] dir = "DescNullsFirst" -> "DESC NULLS FIRST"
    [] dir = "DescNullsLast" -> "DESC NULLS LAST"

\* the items in their order, separated by `, `, each one its expression and,
\* when it has a direction, one space and the keywords of the direction
OrderingLayout(ordering) ==
  Separated([i \in 1..Len(ordering) |->
               <<Call("visit_expression", ordering[i].value)>>
               \o (IF ordering[i].order = None THEN <<>>
                   ELSE <<W(" "), W(DirectionKeywords(ordering[i].order[1]))>>)],
            ", ")

OrderingRendered(ordering) ==
  LET all == AfterVisit(Call("visit_ordering", ordering))
      layout == Run(OrderingLayout(ordering), Accumulators(query, parameters))
  IN /\ Sql(all.query) = Sql(layout.query)
     /\ all.parameters = layout.parameters

\* the direction is one with NULLS FIRST or NULLS LAST
WithNulls(item) ==
  item.order # None
  /\ item.order[1] \in {"AscNullsFirst", "AscNullsLast", "DescNullsFirst", "DescNullsLast"}

\* C25: the ORDER BY items are rendered in the order they were added,
\* separated by `, `; each item is its expression followed, when a direction
\* is set, by one space and the keywords of the direction, and by nothing
\* when none is set, for each of the six directions.
C25_Ordering == EntersOrdering => OrderingRendered(Head(stack).arg)

\* the same for orderings without NULLS FIRST / NULLS LAST
C25_OrderingWithoutNulls ==
  (EntersOrdering /\ \A i \in 1..Len(Head(stack).arg) : ~WithNulls(Head(stack).arg[i]))
    => OrderingRendered(Head(stack).arg)

\* an ORDER BY with NULLS FIRST has been built: no space stands before ASC
C25_NullsFirstBuilt ==
  /\ pc = "returned"
  /\ Sql(query) = "SELECT \"users\".* FROM \"users\" ORDER BY \"a\"ASC NULLS FIRST"

(***************************************************************************)
(* Balance of parentheses.                                                 *)
(***************************************************************************)
\* the number of `(` and of `)` in one piece of text written by the renderer
OpensIn(token) ==
  IF token \in {"(", " (", "( NOT ", "encode(", "json_agg(", "to_jsonb(", "COUNT(*)", "NOW()"}
    THEN 1 ELSE 0

ClosesIn(token) ==
  IF token \in {")", " )", ".*)", "::jsonb)", "COUNT(*)", "NOW()"} THEN 1 ELSE 0

\* the number of `(` still open behind the text from position j on, entered
\* with depth open ones; -1 when a `)` stands where none is open
RECURSIVE OpenBehind(_, _, _)
OpenBehind(text, j, depth) ==
  IF j > Len(text) THEN depth
  ELSE IF depth + OpensIn(text[j]) - ClosesIn(text[j]) < 0 THEN -1
  ELSE OpenBehind(text, j + 1, depth + OpensIn(text[j]) - ClosesIn(text[j]))

C26_NestedBuilt ==
  /\ pc = "returned"
  /\ \E j \in 1..Len(query) : OpenBehind(SubSeq(query, 1, j), 1, 0) >= 3

(***************************************************************************)
(* In and NotIn of the same operands.                                      *)
(***************************************************************************)
\* the comparison of the same operands with the other of In / NotIn
Twin == Compare(IF InOf.cmp = "In" THEN "NotIn" ELSE "In", InOf.args)

\* what In writes and what NotIn writes in its place, case by case
OperatorPairs == {<<"1=0", "1=1">>, <<" IN ", " NOT IN ">>, <<" = ", " <> ">>}

\* text t is text s but for one operator, which is In's in s and NotIn's in t
NegatedText(s, t) ==
  /\ Len(s) = Len(t)
  /\ \E k \in DOMAIN s :
       /\ <<s[k], t[k]>> \in OperatorPairs
       /\ \A i \in DOMAIN s : i # k => s[i] = t[i]

\* C27: In and NotIn of the same pair of operands render to the same text and
\* bind the same parameters, but for the one operator: 1=0 / 1=1, IN / NOT IN
\* or = / <>.
C27_Symmetric ==
  (pc = "returned" /\ InBuild) =>
    LET twin == AfterWhere(<<Call("visit_compare", Twin)>>)
    IN /\ parameters = twin.parameters
       /\ IF InOf.cmp = "In" THEN NegatedText(query, twin.query)
                             ELSE NegatedText(twin.query, query)

\* C27 witness: a NotIn of a two-column Row and a Values of two rows was
\* built, with NOT IN between the row and the rows.
C27_Witness ==
  /\ pc = "returned" /\ InBuild
  /\ InOf.cmp = "NotIn"
  /\ InLeft.kind = "Row" /\ Len(InLeft.val) = 2
  /\ InRight.kind = "Values" /\ Len(InRight.val) = 2
  /\ \E k \in DOMAIN query : query[k] = " NOT IN "

\* C27 witness of the one operator: a NOT IN over a nested Select was built,
\* whose own ` = ` is the same in both texts.
C27_NestedEqualsKept ==
  /\ pc = "returned" /\ InBuild
  /\ InOf.cmp = "NotIn"
  /\ InRight.kind = "Selection"
  /\ \E j, k \in DOMAIN query : j < k /\ query[j] = " NOT IN " /\ query[k] = " = "

(***************************************************************************)
(* The target columns of an INSERT.                                        *)
(***************************************************************************)
\* an Insert into a table whose values are not the empty Row has been built
InsertWithValuesBuilt ==
  /\ pc = "returned"
  /\ current # None
  /\ current[1].query.q = "Insert"
  /\ current[1].query.stmt.table # None
  /\ ~(current[1].query.stmt.values.kind = "Row"
         /\ Len(current[1].query.stmt.values.val) = 0)

\* `INSERT INTO <table> (<columns>)`, the columns in declaration order
InsertHead(insert) ==
  <<"INSERT ", "INTO ">>
  \o TextOf(Call("visit_table", [table |-> insert.table[1], include_alias |-> TRUE]))
  \o <<" (">>
  \o Joined([i \in 1..Len(insert.columns) |-> Quoted(insert.columns[i].name)])
  \o <<")">>

\* the text begins with the pieces of head
BeginsWith(text, head) ==
  /\ Len(text) >= Len(head)
  /\ SubSeq(text, 1, Len(head)) = head

\* C29: an Insert whose values are not the empty Row renders its target
\* columns as a parenthesized comma-separated list, in declaration order,
\* between the table and the values, whatever expression the values are.
C29_ColumnsListed ==
  InsertWithValuesBuilt =>
    /\ BeginsWith(query, InsertHead(current[1].query.stmt))
    /\ Len(query) > Len(InsertHead(current[1].query.stmt))

\* C29 for a Row and for Values only: the column list, then ` VALUES `.
C29_ColumnsListedBeforeValues ==
  (InsertWithValuesBuilt /\ current[1].query.stmt.values.kind \in {"Row", "Values"}) =>
    BeginsWith(query, Append(InsertHead(current[1].query.stmt), " VALUES "))

\* C29 witness: an Insert of a nested Select into column "a" of "users" has
\* been built, and the text names the table and then opens the Select.
C29_SelectInserted ==
  /\ InsertWithValuesBuilt
  /\ current[1].query.stmt.values.kind = "Selection"
  /\ Len(current[1].query.stmt.columns) = 1
  /\ BeginsWith(query, <<"INSERT ", "INTO ", "\"", "users", "\"", "(", "(", "SELECT ">>)

(***************************************************************************)
(* on(..) called on a JoinData.                                            *)
(***************************************************************************)
\* the step is a call of on(..) on the join under construction
OnCalled ==
  /\ pc = "construct"
  /\ subject.what = "JoinData"
  /\ Len(log') = Len(log) + 1
  /\ log'[Len(log')].op = "on"

\* on(..) keeps the table, and its conditions replace NoCondition or come
\* after the existing ones under AND
OnKeepsTableAndCombines ==
  OnCalled =>
    /\ subject'.it.table = subject.it.table
    /\ IF subject.it.conditions = NoCondition
         THEN subject'.it.conditions = log'[Len(log')].e.val
         ELSE Combined(subject'.it.conditions, subject.it.conditions,
                       log'[Len(log')].e, "And", " AND ")

\* the join was marked lateral by one of the calls
MarkedLateral(l) == \E i \in 1..Len(l) : l[i].op = "lateral"

\* C30: on(..) called on a JoinData leaves its table and its lateral flag as
\* they were, its conditions replace NoCondition or are AND-combined after the
\* existing ones, and a join marked lateral is rendered with LATERAL whatever
\* on(..) calls follow.
C30_OnKeepsJoin ==
  /\ [][ /\ OnKeepsTableAndCombines
         /\ OnCalled => subject'.it.lateral = subject.it.lateral ]_vars
  /\ [](    (pc = "returned" /\ subject.what = "JoinData" /\ MarkedLateral(log))
         => \E k \in DOMAIN query : query[k] = " LATERAL ")

\* C30 without the lateral flag: on(..) keeps the table and replaces or
\* AND-combines the conditions.
C30_OnKeepsTable == [][OnKeepsTableAndCombines]_vars

\* C30 for lateral() as the last call: the join is rendered with LATERAL.
C30_LateralLast ==
  (pc = "returned" /\ subject.what = "JoinData" /\ Len(log) > 0
     /\ log[Len(log)].op = "lateral")
    => \E k \in DOMAIN query : query[k] = " LATERAL "

\* C30 witness: lateral() then on(..) were called on a join with conditions,
\* and the Select joining it was built without LATERAL.
C30_LateralLost ==
  /\ pc = "returned"
  /\ subject.what = "JoinData"
  /\ Len(log) = 2
  /\ log[1].op = "lateral"
  /\ log[2].op = "on"
  /\ subject.it.conditions.ct = "And"
  /\ \A k \in DOMAIN query : query[k] # " LATERAL "
  /\ \E k \in DOMAIN query : query[k] = " INNER JOIN "

====
